---------------------------- MODULE Spec2Model ----------------------------
(***************************************************************************)
(* A model of the svg-slicer toolpath pipeline (src/svg_slicer): the       *)
(* configuration, perimeter loops, rectilinear infill, the toolpaths of a  *)
(* shape list, colour planning and G-code emission.                        *)
(*                                                                         *)
(* Numbers.  Lengths are integers in model units (1 unit = 0.01 mm).      *)
(* Euclidean distances are compared through their squares.  Densities and  *)
(* brightness are in thousandths (permille).                               *)
(*                                                                         *)
(* Geometry.  The planar geometry library (shapely) is modelled on         *)
(* rectilinear regions: a geometry is a set of closed square cells of side *)
(* g on the integer grid.  A Polygon is a 4-connected set of cells; a      *)
(* geometry with several components is a MultiPolygon.  Offsetting uses    *)
(* mitred joins, which is exact for the convex corners of such regions.    *)
(***************************************************************************)
EXTENDS Integers, Sequences, FiniteSets, TLC

VARIABLES
    \* _generate_perimeter_loops (cli.py 157-185), one pass per step
    pl_pc,        \* "idle", "loop" (inside the for loop) or "done" (returned)
    pl_polygon,   \* the polygon argument
    pl_step0,     \* the step argument
    pl_step,      \* step after the floor
    pl_target,    \* the target_width argument
    pl_tol,       \* the tolerance argument
    pl_passes,    \* max_passes
    pl_done,      \* passes whose body ran to its end
    pl_current,   \* current
    pl_loops,     \* loops, and at "done" the list returned
    pl_rings,     \* the largest number of rings one pass visited
    pl_log,       \* the _ring_to_polyline calls of this call, in order
    \* _plan_color_sequence (cli.py 408-446)
    cp_pc,        \* "input" (before the call) or "planned" (after it)
    cp_printer,   \* config.printer: color_mode, available_colors
    cp_toolpaths, \* the toolpath list; the call sets assigned_color
    cp_plan,      \* the ColorPlan returned, or None
    cp_calls,     \* how often the planner ran on this list
    \* write_toolpaths_to_gcode (cli.py 449-497)
    gw_pc,        \* position in write_toolpaths_to_gcode
    gw_printer,   \* config.printer
    gw_toolpaths, \* toolpath_list
    gw_plan,      \* color_plan
    gw_gen,       \* the GcodeGenerator
    gw_group,     \* index of the colour group being drawn
    gw_path,      \* index of the next toolpath in the group or the list
    gw_drawn,     \* the draw_single_toolpath calls so far: list indices
    \* generate_rectilinear_infill (infill.py 254-335), one angle per step
    in_pc,          \* "idle", "call", "angles" (inside the for loop) or "done"
    in_polygon,     \* polygon
    in_brightness,  \* the shape brightness the caller derives the density from
    in_config,      \* config.infill
    in_density,     \* density after clamping
    in_spacing,     \* spacing
    in_tolerance4,  \* merge_tolerance, times four
    in_loops,       \* perimeter_loops
    in_index,       \* 1-based position of the next angle
    in_segments,    \* pass_toolpaths of each angle done
    in_alternating, \* alternating, per angle handled
    in_angle_paths, \* angle_paths
    in_result,      \* the list returned
    \* generate_toolpaths_for_shapes (cli.py 200-324), one shape per step
    bt_pc,        \* "idle", "start", "configured", "header", "shapes", "returned", "raised"
    bt_source,    \* where the configuration comes from: "load_config", "gui", "caller"
    bt_raw,       \* the perimeter settings requested, as the mapping of the YAML file
    bt_config,    \* config
    bt_shapes,    \* shapes
    bt_settings,  \* perimeter_width, perimeter_count, min_fill_width, min_fill_mode
    bt_index,     \* 1-based position of the next shape
    bt_results,   \* per shape handled: its toolpaths and the calls made for it
    bt_toolpaths, \* toolpaths
    bt_error,     \* None or the exception raised
    \* one call of a helper function on its own
    uc_pc,        \* "idle", "call" or "done"
    uc_op,        \* the function called
    uc_args,      \* its arguments
    uc_result,    \* what it returned
    \* _merge_boustrophedon (infill.py 141-200), one iteration of the while loop
    \* per step
    mg_pc,        \* "idle", "call", "loop" or "done"
    mg_lines,     \* lines
    mg_max_gap4,  \* max_gap, times four
    mg_loops,     \* perimeter_loops
    mg_st,        \* the loop state: pending, current, merged
    mg_result,    \* the list returned
    \* _interleave_orientations (infill.py 338-393), one iteration of the while
    \* loop per step
    il_pc,              \* "idle", "call", "loop" or "done"
    il_angle_polylines, \* angle_polylines
    il_candidates,      \* candidates
    il_point,           \* current_point: None or the point
    il_chosen,          \* <<chosen_index, reverse>> of the last choice, or None
    il_result,          \* result
    \* _glue_polylines (infill.py 203-251), one iteration of the for loop per
    \* step
    gl_pc,          \* "idle", "call", "loop" or "done"
    gl_polylines,   \* polylines
    gl_tolerance4,  \* tolerance, times four
    gl_loops,       \* perimeter_loops
    gl_index,       \* 1-based position of the next polyline
    gl_st,          \* the loop state: current, glued
    gl_result,      \* the list returned
    \* MainWindow (gui.py 1316-1955), one handler per step
    gu_config,      \* self.config: None or Some(configuration)
    gu_models,      \* self.models
    gu_selected,    \* self._selected_model: 0 (None) or the 1-based index in models
    gu_toolpaths,   \* self._current_toolpaths
    gu_status       \* the text last given to prepare_tab.set_status

pl_vars == <<pl_pc, pl_polygon, pl_step0, pl_step, pl_target, pl_tol, pl_passes, pl_done,
             pl_current, pl_loops, pl_rings, pl_log>>

cp_vars == <<cp_pc, cp_printer, cp_toolpaths, cp_plan, cp_calls>>

gw_vars == <<gw_pc, gw_printer, gw_toolpaths, gw_plan, gw_gen, gw_group, gw_path, gw_drawn>>

in_vars == <<in_pc, in_polygon, in_brightness, in_config, in_density, in_spacing, in_tolerance4, in_loops,
             in_index, in_segments, in_alternating, in_angle_paths, in_result>>

bt_vars == <<bt_pc, bt_source, bt_raw, bt_config, bt_shapes, bt_settings, bt_index,
             bt_results, bt_toolpaths, bt_error>>

uc_vars == <<uc_pc, uc_op, uc_args, uc_result>>

mg_vars == <<mg_pc, mg_lines, mg_max_gap4, mg_loops, mg_st, mg_result>>

il_vars == <<il_pc, il_angle_polylines, il_candidates, il_point, il_chosen, il_result>>

gl_vars == <<gl_pc, gl_polylines, gl_tolerance4, gl_loops, gl_index, gl_st, gl_result>>

gu_vars == <<gu_config, gu_models, gu_selected, gu_toolpaths, gu_status>>

vars == <<pl_vars, cp_vars, gw_vars, in_vars, bt_vars, uc_vars, mg_vars, il_vars, gl_vars, gu_vars>>

-----------------------------------------------------------------------------
(* Arithmetic helpers *)

\* Op applied to the value of v: v is evaluated once, before Op uses it
WithValue(v, Op(_)) == CHOOSE r \in {Op(x) : x \in {v}} : TRUE

Max(a, b) == IF a >= b THEN a ELSE b
Min(a, b) == IF a <= b THEN a ELSE b
Abs(a) == IF a >= 0 THEN a ELSE -a

\* math.ceil(a / b) for a >= 0, b > 0
CeilDiv(a, b) == (a + b - 1) \div b

RECURSIVE GCD(_, _)
GCD(a, b) == IF b = 0 THEN a ELSE GCD(b, a % b)

RECURSIVE SeqSum(_)
SeqSum(s) == IF s = <<>> THEN 0 ELSE Head(s) + SeqSum(Tail(s))

Reverse(s) == [i \in 1..Len(s) |-> s[Len(s) + 1 - i]]

RECURSIVE Flatten(_)
Flatten(ss) == IF ss = <<>> THEN <<>> ELSE Head(ss) \o Flatten(Tail(ss))

\* the squared Euclidean distance of math.hypot(a[0]-b[0], a[1]-b[1])
Dist2(a, b) == (a[1] - b[1]) * (a[1] - b[1]) + (a[2] - b[2]) * (a[2] - b[2])

\* None; an optional record is the sequence of no or one record
None == <<>>

Some(value) == <<value>>

\* the largest r with r * r <= n
ISqrt(n) == CHOOSE r \in 0..n : r * r <= n /\ (r + 1) * (r + 1) > n

\* math.hypot(dx, dy): exact for axis-parallel segments, rounded down otherwise
Hypot(dx, dy) ==
    IF dx = 0 THEN Abs(dy) ELSE IF dy = 0 THEN Abs(dx) ELSE ISqrt(dx * dx + dy * dy)

-----------------------------------------------------------------------------
(* Geometry library: regions of grid cells *)

\* a geometry: cells <<i, j>> stand for [i*g, (i+1)*g] x [j*g, (j+1)*g].
\* valid is shapely's is_valid; kind "line" is a non-areal geometry (no cells).
MkGeom(g, cells) == [g |-> g, cells |-> cells, valid |-> TRUE, kind |-> "areal"]

\* a length given in hundredths of a millimetre, in units (1 unit = 0.01 mm)
Hundredths(h) == h

EmptyGeometry == MkGeom(1, {})

\* a w x h rectangle of cells with lower-left cell <<i0, j0>>
RectCells(i0, j0, w, h) == {<<i, j>> : i \in i0..(i0 + w - 1), j \in j0..(j0 + h - 1)}

is_empty(geom) == geom.kind = "areal" /\ geom.cells = {}

area(geom) == Cardinality(geom.cells) * geom.g * geom.g

\* the first cell of a set: lowest row, then leftmost
FirstCell(S) ==
    CHOOSE c \in S : \A d \in S : c[2] < d[2] \/ (c[2] = d[2] /\ c[1] <= d[1])

\* d lies in the row or the column of c, with every cell between them in S
StraightLink(S, c, d) ==
    \/ c[2] = d[2] /\ \A m \in Min(c[1], d[1])..Max(c[1], d[1]) : <<m, c[2]>> \in S
    \/ c[1] = d[1] /\ \A m \in Min(c[2], d[2])..Max(c[2], d[2]) : <<c[1], m>> \in S

\* the cells 4-connected to the seen ones, found a straight run at a time
RECURSIVE Flood(_, _, _)
Flood(S, seen, front) ==
    IF front = {} THEN seen
    ELSE WithValue({d \in S \ seen : \E c \in front : StraightLink(S, c, d)},
                   LAMBDA nxt : WithValue(seen \cup nxt,
                                          LAMBDA seen2 : Flood(S, seen2, nxt)))

ComponentOf(S, c) == Flood(S, {c}, {c})

\* the 4-connected components of a cell set, in order of their first cells
RECURSIVE ComponentsFrom(_)
ComponentsFrom(S) ==
    IF S = {} THEN <<>>
    ELSE WithValue(ComponentOf(S, FirstCell(S)),
                   LAMBDA comp : <<comp>> \o WithValue(S \ comp, ComponentsFrom))

Components(cells) == WithValue(cells, ComponentsFrom)

\* the same region on a finer grid: every cell becomes f x f cells
Refine(geom, f) ==
    IF f = 1 THEN geom
    ELSE MkGeom(geom.g \div f,
                UNION {RectCells(c[1] * f, c[2] * f, f, f) : c \in geom.cells})

\* the cells whose whole k-neighbourhood lies in S (erosion by k cells)
ErodeCells(S, k) ==
    {c \in S : \A dx \in (-k)..k, dy \in (-k)..k : <<c[1] + dx, c[2] + dy>> \in S}

\* the cells within k cells of S (dilation by k cells)
DilateCells(S, k) ==
    UNION {RectCells(c[1] - k, c[2] - k, 2 * k + 1, 2 * k + 1) : c \in S}

\* geometry.buffer(d): erosion for d < 0, dilation for d > 0, the region itself for 0
BufferValue(geom, d) ==
    IF is_empty(geom) \/ d = 0 THEN geom
    ELSE LET g2 == GCD(geom.g, Abs(d))
             k == Abs(d) \div g2
         IN WithValue(Refine(geom, geom.g \div g2).cells,
                      LAMBDA fine : [geom EXCEPT !.g = g2,
                                                 !.cells = IF d < 0 THEN ErodeCells(fine, k)
                                                           ELSE DilateCells(fine, k)])

buffer(geom, d) == WithValue(geom, LAMBDA v : BufferValue(v, d))

\* (minx, miny, maxx, maxy) in units
bounds(geom) ==
    LET xs == {c[1] : c \in geom.cells}
        ys == {c[2] : c \in geom.cells}
        lo(S) == CHOOSE m \in S : \A n \in S : m <= n
        hi(S) == CHOOSE m \in S : \A n \in S : m >= n
    IN <<lo(xs) * geom.g, lo(ys) * geom.g, (hi(xs) + 1) * geom.g, (hi(ys) + 1) * geom.g>>

-----------------------------------------------------------------------------
(* Rings: the boundary of a cell set as closed vertex sequences *)

\* the directed unit edges of the boundary, the region on their left
BoundaryEdges(S) ==
    UNION {
        (IF <<c[1], c[2] - 1>> \in S THEN {}
            ELSE {<<<<c[1], c[2]>>, <<c[1] + 1, c[2]>>>>})
        \cup (IF <<c[1] + 1, c[2]>> \in S THEN {}
            ELSE {<<<<c[1] + 1, c[2]>>, <<c[1] + 1, c[2] + 1>>>>})
        \cup (IF <<c[1], c[2] + 1>> \in S THEN {}
            ELSE {<<<<c[1] + 1, c[2] + 1>>, <<c[1], c[2] + 1>>>>})
        \cup (IF <<c[1] - 1, c[2]>> \in S THEN {}
            ELSE {<<<<c[1], c[2] + 1>>, <<c[1], c[2]>>>>})
        : c \in S}

EdgeDir(e) == <<e[2][1] - e[1][1], e[2][2] - e[1][2]>>

\* the boundary edge that follows e: left turn first, so that cells that
\* touch only at a corner stay on different rings
NextEdge(E, e) ==
    LET b == e[2]
        d == EdgeDir(e)
        l == <<b, <<b[1] - d[2], b[2] + d[1]>>>>
        s == <<b, <<b[1] + d[1], b[2] + d[2]>>>>
        r == <<b, <<b[1] + d[2], b[2] - d[1]>>>>
    IN IF l \in E THEN l ELSE IF s \in E THEN s ELSE r

\* the edge k unit steps further along the direction of e
Shift(e, k) ==
    LET d == EdgeDir(e)
    IN <<<<e[1][1] + k * d[1], e[1][2] + k * d[2]>>,
         <<e[2][1] + k * d[1], e[2][2] + k * d[2]>>>>

\* the last edge of the straight run of boundary edges that starts with e
RunEnd(E, e) ==
    LET turns(k) == EdgeDir(NextEdge(E, Shift(e, k))) # EdgeDir(e)
        k0 == CHOOSE k \in 0..Cardinality(E) :
                  turns(k) /\ \A m \in 0..(k - 1) : ~turns(m)
    IN Shift(e, k0)

\* a ring as the sequence of the first edges of its straight runs
RECURSIVE TraceRing(_, _, _, _)
TraceRing(E, start, e, acc) ==
    WithValue(NextEdge(E, RunEnd(E, e)),
              LAMBDA n : IF n = start THEN Append(acc, e)
                         ELSE TraceRing(E, start, n, Append(acc, e)))

\* the first edge of a set: lowest start point, then leftmost, then by heading.
\* It starts at a corner of its ring.
FirstEdge(E) ==
    LET heading(e) == IF EdgeDir(e) = <<1, 0>> THEN 0
                      ELSE IF EdgeDir(e) = <<0, 1>> THEN 1
                      ELSE IF EdgeDir(e) = <<-1, 0>> THEN 2 ELSE 3
        less(a, b) == \/ a[1][2] < b[1][2]
                      \/ a[1][2] = b[1][2] /\ a[1][1] < b[1][1]
                      \/ a[1] = b[1] /\ heading(a) < heading(b)
    IN CHOOSE e \in E : \A f \in E : f = e \/ less(e, f)

\* the unit edges of the straight run that starts with e
RunEdges(E, e) ==
    LET last == RunEnd(E, e)
        len == Abs(last[1][1] - e[1][1]) + Abs(last[1][2] - e[1][2])
    IN {Shift(e, k) : k \in 0..len}

\* the rings of a boundary, each the sequence of its run-starting edges
RECURSIVE EdgeRingsFrom(_)
EdgeRingsFrom(E) ==
    IF E = {} THEN <<>>
    ELSE WithValue(FirstEdge(E), LAMBDA first :
         WithValue(TraceRing(E, first, first, <<>>), LAMBDA ring :
             <<ring>> \o WithValue(E \ UNION {RunEdges(E, ring[i]) : i \in 1..Len(ring)},
                                   EdgeRingsFrom)))

EdgeRings(edges) == WithValue(edges, EdgeRingsFrom)

\* the corner vertices of a ring, closed (first = last), in units
RingCoords(ring, g) ==
    LET pts == [i \in 1..Len(ring) |-> <<ring[i][1][1] * g, ring[i][1][2] * g>>]
    IN Append(pts, pts[1])

\* an exterior ring runs counter-clockwise: its first edge heads east
IsExterior(ring) == EdgeDir(ring[1]) = <<1, 0>>

\* the region cell on the left of a boundary edge
LeftCell(e) ==
    LET d == EdgeDir(e)
        a == e[1]
    IN IF d = <<1, 0>> THEN <<a[1], a[2]>>
       ELSE IF d = <<0, 1>> THEN <<a[1] - 1, a[2]>>
       ELSE IF d = <<-1, 0>> THEN <<a[1] - 1, a[2] - 1>>
       ELSE <<a[1], a[2] - 1>>

\* the rings of a Polygon (one component): exterior first, then the holes
PolygonRings(poly) ==
    LET IsHole(r) == ~IsExterior(r)
    IN WithValue(EdgeRings(BoundaryEdges(poly.cells)), LAMBDA rings :
           [exterior |-> RingCoords(SelectSeq(rings, IsExterior)[1], poly.g),
            interiors |-> WithValue(SelectSeq(rings, IsHole), LAMBDA holes :
                              [i \in 1..Len(holes) |-> RingCoords(holes[i], poly.g)])])

exterior(poly) == PolygonRings(poly).exterior

interiors(poly) == PolygonRings(poly).interiors

-----------------------------------------------------------------------------
(* Geometry utilities (cli.py) *)

\* what the library calls of _clean_geometry do on an invalid geometry:
\* mv: make_valid returns a valid geometry ("ok"), an invalid one ("invalid"),
\*     raises ("raises") or is not importable ("absent");
\* bz: buffer(0) returns a valid geometry ("ok") or raises ("raises")
LibOutcomes == [mv : {"ok", "invalid", "raises", "absent"}, bz : {"ok", "raises"}]

LibOk == [mv |-> "ok", bz |-> "ok"]

\* what a caller sees when an exception leaves a function
Raised == [raised |-> TRUE]

\* _clean_geometry without the try blocks of lines 48-51 and 53-56
_clean_geometry_lib_Unguarded(geometry, lib) ==
    IF is_empty(geometry) THEN geometry
    ELSE IF geometry.valid THEN geometry
    ELSE IF lib.mv = "raises" THEN Raised
    ELSE LET geom1 == IF lib.mv = "ok" THEN [geometry EXCEPT !.valid = TRUE]
                      ELSE geometry
         IN IF ~geom1.valid
            THEN IF lib.bz = "raises" THEN Raised
                 ELSE [geom1 EXCEPT !.valid = TRUE]
            ELSE geom1

_clean_geometry_lib(geometry, lib) ==
    IF is_empty(geometry) THEN geometry
    ELSE IF geometry.valid THEN geometry
    ELSE LET geom1 == IF lib.mv = "ok" THEN [geometry EXCEPT !.valid = TRUE]
                      ELSE geometry
         IN IF ~geom1.valid
            THEN IF lib.bz = "raises" THEN geometry
                 ELSE [geom1 EXCEPT !.valid = TRUE]
            ELSE geom1

_clean_geometry(geometry) == _clean_geometry_lib(geometry, LibOk)

\* _geometry_to_polygons: the Polygons of a geometry (a Polygon itself, or the
\* parts of a MultiPolygon); a non-areal geometry has none
_geometry_to_polygons(geometry0) ==
    WithValue(_clean_geometry(geometry0), LAMBDA geometry :
        IF is_empty(geometry) THEN <<>>
        ELSE IF geometry.kind # "areal" THEN <<>>
        ELSE WithValue(Components(geometry.cells), LAMBDA comps :
                 [i \in 1..Len(comps) |-> [geometry EXCEPT !.cells = comps[i]]]))

\* line.simplify(tolerance, preserve_topology=True): a subsequence of the
\* vertices.  Which vertices survive is the library's choice; tolerance 0
\* keeps every corner.
SimplifyChoices == {"all", "ends", "alternate", "open"}

simplify(coords, tolerance, choice) ==
    IF tolerance <= 0 \/ choice = "all" THEN coords
    ELSE IF choice = "ends" THEN <<coords[1], coords[Len(coords)]>>
    ELSE IF choice = "open" THEN SubSeq(coords, 1, Len(coords) - 1)
    ELSE LET odd == {i \in 1..Len(coords) : i % 2 = 1 \/ i = Len(coords)}
             IsKept(i) == i \in odd
             idx == SelectSeq([i \in 1..Len(coords) |-> i], IsKept)
         IN [k \in 1..Len(idx) |-> coords[idx[k]]]

_ring_to_polyline_NoReclose(coords, tolerance, choice) ==
    IF Len(coords) < 2 THEN <<>>
    ELSE WithValue(simplify(coords, Max(tolerance, 0), choice), LAMBDA simplified :
             IF Len(simplified) < 3 THEN coords ELSE simplified)

_ring_to_polyline(coords, tolerance, choice) ==
    IF Len(coords) < 2 THEN <<>>
    ELSE WithValue(simplify(coords, Max(tolerance, 0), choice), LAMBDA simplified :
         WithValue(IF Len(simplified) < 3 THEN coords ELSE simplified,
                   LAMBDA simplified_coords :
             IF simplified_coords[1] # simplified_coords[Len(simplified_coords)]
             THEN Append(simplified_coords, simplified_coords[1])
             ELSE simplified_coords))

-----------------------------------------------------------------------------
(* Perimeter engine (cli.py 157-197) *)

\* the smallest step, 1e-6 mm in the code: below the model's resolution, so
\* the smallest positive length of the model
StepFloor == 1

max_passes_OffByOne(step, target_width) ==
    Max(1, CeilDiv(Max(target_width, Max(step, StepFloor)), Max(step, StepFloor))) + 1

\* max_passes of _generate_perimeter_loops for the step and target width given
max_passes(step, target_width) ==
    Max(1, CeilDiv(Max(target_width, Max(step, StepFloor)), Max(step, StepFloor)))

\* the rings of a Polygon in the order the loop body visits them
RingsOf(poly) ==
    WithValue(PolygonRings(poly), LAMBDA r : <<r.exterior>> \o r.interiors)

\* the rings one pass visits: for every polygon its exterior, then its interiors
PassRings(current) ==
    WithValue(_geometry_to_polygons(current), LAMBDA polys :
        Flatten([i \in 1..Len(polys) |-> RingsOf(polys[i])]))

NonEmptyLoop(l) == l # <<>>

\* the loops one pass appends for the rings it visits
LoopsOfRings(rings, tolerance, choice) ==
    SelectSeq([i \in 1..Len(rings) |-> _ring_to_polyline(rings[i], tolerance, choice)],
              NonEmptyLoop)

PassLoops(current, tolerance, choice) ==
    WithValue(PassRings(current), LAMBDA rings : LoopsOfRings(rings, tolerance, choice))

AtLeastTwo(l) == Len(l) >= 2

\* the loop of _generate_perimeter_loops from a pass on
RECURSIVE PerimeterPasses(_, _, _, _, _, _)
PerimeterPasses(current0, left, step, tolerance, choice, loops) ==
    IF left = 0 THEN loops
    ELSE WithValue(_clean_geometry(current0), LAMBDA current :
             IF is_empty(current) \/ area(current) <= 0 THEN loops
             ELSE WithValue(buffer(current, -step), LAMBDA shrunk :
                  WithValue(loops \o PassLoops(current, tolerance, choice), LAMBDA loops2 :
                      PerimeterPasses(shrunk, left - 1, step, tolerance, choice, loops2))))

_generate_perimeter_loops(polygon, step0, target_width, tolerance, choice) ==
    LET step == Max(step0, StepFloor)
    IN SelectSeq(PerimeterPasses(_clean_geometry(polygon), max_passes(step0, target_width),
                                 step, tolerance, choice, <<>>),
                 AtLeastTwo)

-----------------------------------------------------------------------------
(* Rectilinear infill: the sweep (infill.py 254-320) *)

RECURSIVE AscendingSeq(_)
\* the elements of a finite set of integers in ascending order
AscendingSeq(S) ==
    IF S = {} THEN <<>>
    ELSE LET m == CHOOSE x \in S : \A y \in S : x <= y
         IN <<m>> \o AscendingSeq(S \ {m})

\* the indices, across the sweep line, of the cells that the line at
\* coordinate c meets; axis 2 is a horizontal line y = c, axis 1 a vertical
\* line x = c.  Cells are closed: a line along a grid line meets both rows.
TouchingIndices(geom, axis, c) ==
    {q[3 - axis] : q \in {cell \in geom.cells :
                             cell[axis] * geom.g <= c /\ c <= (cell[axis] + 1) * geom.g}}

\* the maximal runs <<first, last>> of consecutive indices, ascending
IndexRuns(indices) ==
    LET starts == AscendingSeq({i \in indices : (i - 1) \notin indices})
    IN [k \in 1..Len(starts) |->
           <<starts[k],
             CHOOSE e \in indices :
                 e >= starts[k] /\ (e + 1) \notin indices
                     /\ \A m \in starts[k]..e : m \in indices>>]

\* _collect_segments(rotated.intersection(sweep_line)), rotated back: the
\* segments cut from the sweep line, in the direction of the line.  For
\* angle 0 the line is y = c and runs towards +x; for angle 90 it is x = c
\* and runs towards +y.
SweepSegments(geom, angle, c) ==
    WithValue(IndexRuns(TouchingIndices(geom, IF angle = 0 THEN 2 ELSE 1, c)), LAMBDA runs :
        [k \in 1..Len(runs) |->
            IF angle = 0
            THEN <<<<runs[k][1] * geom.g, c>>, <<(runs[k][2] + 1) * geom.g, c>>>>
            ELSE <<<<c, runs[k][1] * geom.g>>, <<c, (runs[k][2] + 1) * geom.g>>>>])

\* the positions current_y takes: from start = min - spacing in steps of
\* spacing while current_y <= stop = max + spacing.  For angle 90 the
\* rotated frame's y axis is the -x axis, so the sweep starts at maxx + spacing
\* and moves towards -x.
SweepPositions(geom, angle, spacing) ==
    LET b == bounds(geom)
        lo == IF angle = 0 THEN b[2] ELSE b[1]
        hi == IF angle = 0 THEN b[4] ELSE b[3]
        count == (hi - lo + 2 * spacing) \div spacing + 1
    IN [k \in 1..count |->
           IF angle = 0 THEN lo - spacing + (k - 1) * spacing
           ELSE hi + spacing - (k - 1) * spacing]

\* pass_toolpaths of one angle (lines 292-310)
pass_toolpaths(geom, angle, spacing) ==
    WithValue(SweepPositions(geom, angle, spacing), LAMBDA positions :
        Flatten([k \in 1..Len(positions) |-> SweepSegments(geom, angle, positions[k])]))

\* alternating (lines 312-320): every second polyline of the pass reversed,
\* and the whole list reversed for an odd angle index (0-based)
alternating(polylines, index) ==
    LET alt == [k \in 1..Len(polylines) |->
                   IF (k - 1) % 2 = 1 THEN Reverse(polylines[k]) ELSE polylines[k]]
    IN IF index % 2 = 1 THEN Reverse(alt) ELSE alt

-----------------------------------------------------------------------------
(* Rectilinear infill: bridges along the perimeter (infill.py 48-138) *)

\* a tolerance is carried as four times its value, so that a quarter of a
\* spacing stays an integer: d <= tolerance iff 16 * d^2 <= tolerance4^2.
\* The code's 1e-9 slack is below the model's resolution.
WithinTolerance(d2, tolerance4) == 16 * d2 <= tolerance4 * tolerance4

\* d <= max(tolerance * 2.0, 1e-6)
WithinCheckTolerance(d2, tolerance4) == 4 * d2 <= tolerance4 * tolerance4

\* _build_perimeter_loops: the exterior ring, then the interior rings
_build_perimeter_loops(polygon) ==
    IF is_empty(polygon) THEN <<>>
    ELSE WithValue(PolygonRings(polygon), LAMBDA rings :
             LET closed == <<rings.exterior>> \o rings.interiors
                 HasLength(loop) == Len(loop) >= 2
             IN SelectSeq(closed, HasLength))

\* the arc length at which the loop reaches its k-th vertex
VertexDistance(loop, k) ==
    SeqSum([m \in 1..(k - 1) |->
               Hypot(loop[m + 1][1] - loop[m][1], loop[m + 1][2] - loop[m][2])])

\* loop.length
LoopLength(loop) == VertexDistance(loop, Len(loop))

Clamp(v, a, b) == Max(Min(a, b), Min(v, Max(a, b)))

\* the point of the k-th segment of the loop nearest to p (axis-parallel
\* segments: the nearest point is p clamped to the segment)
NearestOnSegment(loop, k, p) ==
    <<Clamp(p[1], loop[k][1], loop[k + 1][1]), Clamp(p[2], loop[k][2], loop[k + 1][2])>>

\* loop.project(point): the arc length of the point of the loop nearest to p,
\* the first such point along the loop
project(loop, p) ==
    LET near == [k \in 1..(Len(loop) - 1) |-> NearestOnSegment(loop, k, p)]
        at == [k \in 1..(Len(loop) - 1) |->
                  [d2 |-> Dist2(p, near[k]),
                   dist |-> VertexDistance(loop, k) + Hypot(near[k][1] - loop[k][1],
                                                            near[k][2] - loop[k][2])]]
        best == CHOOSE k \in 1..(Len(loop) - 1) :
                    \A m \in 1..(Len(loop) - 1) :
                        \/ at[k].d2 < at[m].d2
                        \/ at[k].d2 = at[m].d2 /\ at[k].dist <= at[m].dist
    IN at[best].dist

Sign(v) == IF v > 0 THEN 1 ELSE IF v < 0 THEN -1 ELSE 0

\* loop.interpolate(dist) for 0 <= dist <= loop.length
interpolate(loop, dist) ==
    LET k == CHOOSE m \in 1..(Len(loop) - 1) :
                 /\ VertexDistance(loop, m) <= dist
                 /\ dist <= VertexDistance(loop, m + 1)
                 /\ \A n \in 1..(m - 1) : VertexDistance(loop, n + 1) < dist
        along == dist - VertexDistance(loop, k)
    IN <<loop[k][1] + along * Sign(loop[k + 1][1] - loop[k][1]),
         loop[k][2] + along * Sign(loop[k + 1][2] - loop[k][2])>>

\* list(substring(loop, a, b).coords) for a <= b: the two end points and the
\* vertices strictly between them; one point when a = b
substring(loop, a, b) ==
    IF a = b THEN <<interpolate(loop, a)>>
    ELSE LET Between(k) == a < VertexDistance(loop, k) /\ VertexDistance(loop, k) < b
             inner == SelectSeq([k \in 1..Len(loop) |-> k], Between)
         IN <<interpolate(loop, a)>> \o [m \in 1..Len(inner) |-> loop[inner[m]]]
                \o <<interpolate(loop, b)>>

_loop_section(loop, start_dist, end_dist) ==
    IF LoopLength(loop) <= 0 THEN <<>>
    ELSE IF start_dist = end_dist THEN <<interpolate(loop, start_dist)>>
    ELSE IF start_dist <= end_dist THEN substring(loop, start_dist, end_dist)
    ELSE substring(loop, start_dist, LoopLength(loop))
             \o Tail(substring(loop, 0, end_dist))

RECURSIVE Dedupe(_, _, _)
\* deduped: the points of path[i:] that differ from the point kept before
Dedupe(path, i, acc) ==
    IF i > Len(path) THEN acc
    ELSE Dedupe(path, i + 1,
                IF path[i] # acc[Len(acc)] THEN Append(acc, path[i]) ELSE acc)

PathLength(path) ==
    SeqSum([i \in 1..(Len(path) - 1) |->
               Hypot(path[i + 1][1] - path[i][1], path[i + 1][2] - path[i][2])])

\* the forward and the backward section of each loop that passes within
\* check_tolerance of both points, with their ends replaced by the points
GlideCandidates(start, end, loops, tolerance4) ==
    LET Near(loop, p) == WithinCheckTolerance(
            Dist2(p, interpolate(loop, project(loop, p))), tolerance4)
        Ends(path) == [i \in 1..Len(path) |->
                          IF i = Len(path) THEN end ELSE IF i = 1 THEN start ELSE path[i]]
        Sections(loop) ==
            IF LoopLength(loop) <= 0 \/ ~Near(loop, start) \/ ~Near(loop, end) THEN <<>>
            ELSE <<_loop_section(loop, project(loop, start), project(loop, end)),
                   Reverse(_loop_section(loop, project(loop, end), project(loop, start)))>>
        Usable(path) == Len(path) >= 2
        Deduped(path) == IF path = <<>> THEN <<>> ELSE Dedupe(Ends(path), 2, <<Ends(path)[1]>>)
    IN SelectSeq(Flatten([k \in 1..Len(loops) |->
                             [m \in 1..Len(Sections(loops[k])) |->
                                 Deduped(Sections(loops[k])[m])]]),
                 Usable)

\* _perimeter_glide_path: the first candidate that no other candidate beats
\* in length, or None
_perimeter_glide_path(start, end, loops, tolerance4) ==
    IF loops = <<>> THEN None
    ELSE WithValue(GlideCandidates(start, end, loops, tolerance4), LAMBDA paths :
             IF paths = <<>> THEN None
             ELSE paths[CHOOSE k \in 1..Len(paths) :
                           /\ \A m \in 1..Len(paths) : PathLength(paths[k]) <= PathLength(paths[m])
                           /\ \A m \in 1..(k - 1) : PathLength(paths[m]) > PathLength(paths[k])])

-----------------------------------------------------------------------------
(* Rectilinear infill: merge, interleave, glue (infill.py 141-393) *)
(* perimeter_loops is always a list at the call sites (lines 321-335), so   *)
(* the straight connector tried when perimeter_loops is None cannot occur.  *)

\* the highest index among the pending starts at the least distance
NearestStart_Last(point, pending) ==
    CHOOSE k \in 1..Len(pending) :
        /\ \A m \in 1..Len(pending) : Dist2(point, pending[k][1]) <= Dist2(point, pending[m][1])
        /\ \A m \in (k + 1)..Len(pending) : Dist2(point, pending[m][1]) > Dist2(point, pending[k][1])

\* next_index (line 166): min over range(len(pending)) keyed by the distance
\* from point to the start of the line, which is the lowest index at the
\* least distance
NearestStart(point, pending) ==
    CHOOSE k \in 1..Len(pending) :
        /\ \A m \in 1..Len(pending) : Dist2(point, pending[k][1]) <= Dist2(point, pending[m][1])
        /\ \A m \in 1..(k - 1) : Dist2(point, pending[m][1]) > Dist2(point, pending[k][1])

RemoveAt(seq, k) == SubSeq(seq, 1, k - 1) \o SubSeq(seq, k + 1, Len(seq))

new_run_DropFirst(line) == Tail(line)

\* current = list(line) (lines 186, 191)
new_run(line) == line

\* the iteration without the bridge of lines 172-189: a segment at a distance
\* begins a new run
merge_step_NeverBridges(st, max_gap4, perimeter_loops) ==
    IF st.current = <<>>
    THEN [pending |-> Tail(st.pending), current |-> st.pending[1], merged |-> st.merged]
    ELSE LET last_point == st.current[Len(st.current)]
             next_index == NearestStart(last_point, st.pending)
             line == st.pending[next_index]
             rest == RemoveAt(st.pending, next_index)
         IN IF Dist2(last_point, line[1]) = 0
            THEN [pending |-> rest, merged |-> st.merged, current |-> st.current \o Tail(line)]
            ELSE [pending |-> rest, current |-> new_run(line),
                  merged |-> Append(st.merged, st.current)]

\* one iteration of the while loop of _merge_boustrophedon (lines 154-193)
\* on the loop state [pending, current, merged]
merge_step(st, max_gap4, perimeter_loops) ==
    IF st.current = <<>>
    THEN [pending |-> Tail(st.pending), current |-> st.pending[1], merged |-> st.merged]
    ELSE LET last_point == st.current[Len(st.current)]
             next_index == NearestStart(last_point, st.pending)
             line == st.pending[next_index]
             rest == RemoveAt(st.pending, next_index)
             distance2 == Dist2(last_point, line[1])
             NewRun == [pending |-> rest, current |-> new_run(line),
                        merged |-> Append(st.merged, st.current)]
         IN IF WithinTolerance(distance2, max_gap4)
            THEN IF distance2 > 0
                 THEN WithValue(_perimeter_glide_path(last_point, line[1], perimeter_loops,
                                                      max_gap4),
                                LAMBDA connector_path :
                          IF connector_path = None THEN NewRun
                          ELSE [pending |-> rest, merged |-> st.merged,
                                current |-> st.current \o Tail(connector_path) \o Tail(line)])
                 ELSE [pending |-> rest, merged |-> st.merged,
                       current |-> st.current \o Tail(line)]
            ELSE NewRun

RECURSIVE MergeLoop(_, _, _)
MergeLoop(st, max_gap4, perimeter_loops) ==
    IF st.pending = <<>>
    THEN IF st.current # <<>> THEN Append(st.merged, st.current) ELSE st.merged
    ELSE WithValue(merge_step(st, max_gap4, perimeter_loops),
                   LAMBDA next : MergeLoop(next, max_gap4, perimeter_loops))

AtLeastTwoPoints(polyline) == Len(polyline) >= 2

\* pending (line 147): the lines of at least two points
merge_pending(lines) == SelectSeq(lines, AtLeastTwoPoints)

_merge_boustrophedon(lines, max_gap4, perimeter_loops) ==
    WithValue(merge_pending(lines), LAMBDA pending :
        IF pending = <<>> THEN <<>>
        ELSE MergeLoop([pending |-> pending, current |-> <<>>, merged |-> <<>>],
                       max_gap4, perimeter_loops))

\* candidates (lines 339-343): <<angle_index, polyline>> for the polylines of
\* at least two points, angle by angle
interleave_candidates(angle_polylines) ==
    Flatten([a \in 1..Len(angle_polylines) |->
                WithValue(SelectSeq(angle_polylines[a], AtLeastTwoPoints), LAMBDA kept :
                    [k \in 1..Len(kept) |-> <<a - 1, kept[k]>>])])

\* 1 / (4 * e * e) for the margin e of 1e-6 mm (line 380), 1e-4 units
InverseMargin2 == 25000000

\* sqrt(a) < sqrt(b) - e on squared distances a and b: with D = b - a it is
\* 4 * e * e * a < (D - e * e) ^ 2, which no a within the integer width
\* fails from D = 10 on
CloserByMargin(a, b) ==
    /\ b > a
    /\ \/ b - a >= 10
       \/ a + ((b - a + 1) \div 2) <= InverseMargin2 * (b - a) * (b - a)

\* abs(dist - best_dist) <= 1e-6
WithinMargin(a, b) == ~CloserByMargin(a, b) /\ ~CloserByMargin(b, a)

\* dist and rev of a candidate (lines 370-379): <<squared distance, reverse>>
NearerEnd(current_point, poly) ==
    LET dist_start == Dist2(current_point, poly[1])
        dist_end == Dist2(current_point, poly[Len(poly)])
    IN IF dist_end < dist_start THEN <<dist_end, TRUE>> ELSE <<dist_start, FALSE>>

\* the for loop of lines 369-384 from index idx on; best is None for the
\* infinite best_dist, else <<best_dist squared, chosen_index, reverse>>
RECURSIVE BestCandidate(_, _, _, _)
BestCandidate(candidates, current_point, idx, best) ==
    IF idx > Len(candidates) THEN best
    ELSE WithValue(NearerEnd(current_point, candidates[idx][2]), LAMBDA near :
             IF \/ best = None
                \/ CloserByMargin(near[1], best[1])
                \/ WithinMargin(near[1], best[1]) /\ idx < best[2]
             THEN BestCandidate(candidates, current_point, idx + 1, <<near[1], idx, near[2]>>)
             ELSE BestCandidate(candidates, current_point, idx + 1, best))

\* the first candidate of the lowest angle index (lines 352-363)
FirstOfLowestAngle(candidates) ==
    LET angle_idx == CHOOSE a \in {candidates[k][1] : k \in 1..Len(candidates)} :
                         \A k \in 1..Len(candidates) : a <= candidates[k][1]
    IN CHOOSE k \in 1..Len(candidates) :
           /\ candidates[k][1] = angle_idx
           /\ \A m \in 1..(k - 1) : candidates[m][1] # angle_idx

\* the choice by start distance alone, never reversed
interleave_choice_StartOnly(candidates, current_point) ==
    IF current_point = None THEN <<FirstOfLowestAngle(candidates), FALSE>>
    ELSE LET d(k) == Dist2(current_point, candidates[k][2][1])
         IN <<CHOOSE k \in 1..Len(candidates) :
                  /\ \A m \in 1..Len(candidates) : d(k) <= d(m)
                  /\ \A m \in 1..(k - 1) : d(m) > d(k),
              FALSE>>

\* the candidate chosen next (lines 352-384): <<index, reverse>>
interleave_choice(candidates, current_point) ==
    IF current_point = None THEN <<FirstOfLowestAngle(candidates), FALSE>>
    ELSE WithValue(BestCandidate(candidates, current_point, 1, None), LAMBDA best :
             <<best[2], best[3]>>)

RECURSIVE InterleaveLoop(_, _, _)
InterleaveLoop(candidates, current_point, result) ==
    IF candidates = <<>> THEN result
    ELSE WithValue(interleave_choice(candidates, current_point), LAMBDA choice :
         WithValue(IF choice[2] THEN Reverse(candidates[choice[1]][2])
                   ELSE candidates[choice[1]][2], LAMBDA polyline :
             InterleaveLoop(RemoveAt(candidates, choice[1]), polyline[Len(polyline)],
                            Append(result, polyline))))

_interleave_orientations(angle_polylines) ==
    WithValue(interleave_candidates(angle_polylines), LAMBDA candidates :
        InterleaveLoop(candidates, None, <<>>))

\* the iteration that joins nothing
glue_step_AlwaysCloses(st, polyline, tolerance4, perimeter_loops) ==
    IF Len(polyline) < 2 THEN st
    ELSE [current |-> polyline, glued |-> Append(st.glued, st.current)]

\* one iteration of the for loop of _glue_polylines (lines 215-248) on the
\* loop state [current, glued]
glue_step(st, polyline, tolerance4, perimeter_loops) ==
    IF Len(polyline) < 2 THEN st
    ELSE LET start == st.current[Len(st.current)]
             reversed == Dist2(start, polyline[Len(polyline)]) < Dist2(start, polyline[1])
             candidate == IF reversed THEN Reverse(polyline) ELSE polyline
             start_distance2 == Dist2(start, candidate[1])
             NewRun == [current |-> candidate, glued |-> Append(st.glued, st.current)]
         IN IF WithinTolerance(start_distance2, tolerance4)
            THEN IF start_distance2 > 0
                 THEN WithValue(_perimeter_glide_path(start, candidate[1], perimeter_loops,
                                                      tolerance4),
                                LAMBDA connector_path :
                          IF connector_path = None THEN NewRun
                          ELSE [glued |-> st.glued,
                                current |-> st.current
                                    \o (IF Len(connector_path) > 1 THEN Tail(connector_path)
                                        ELSE <<>>)
                                    \o Tail(candidate)])
                 ELSE [glued |-> st.glued, current |-> st.current \o Tail(candidate)]
            ELSE NewRun

RECURSIVE GlueLoop(_, _, _, _, _)
GlueLoop(st, polylines, i, tolerance4, perimeter_loops) ==
    IF i > Len(polylines) THEN Append(st.glued, st.current)
    ELSE WithValue(glue_step(st, polylines[i], tolerance4, perimeter_loops),
                   LAMBDA next : GlueLoop(next, polylines, i + 1, tolerance4, perimeter_loops))

\* the loop without the glued.append(current) of line 250
_glue_polylines_ForgetsCurrent(polylines, tolerance4, perimeter_loops) ==
    IF polylines = <<>> THEN <<>>
    ELSE WithValue(GlueLoop([current |-> polylines[1], glued |-> <<>>], polylines, 2,
                            tolerance4, perimeter_loops),
                   LAMBDA glued : SubSeq(glued, 1, Len(glued) - 1))

_glue_polylines(polylines, tolerance4, perimeter_loops) ==
    IF polylines = <<>> THEN <<>>
    ELSE GlueLoop([current |-> polylines[1], glued |-> <<>>], polylines, 2,
                  tolerance4, perimeter_loops)

-----------------------------------------------------------------------------
(* generate_rectilinear_infill (infill.py 254-335, cli.py 60-63) *)

\* the mapping with brightness in the place of 1 - brightness
_brightness_to_density_Rising(brightness, infill) ==
    infill.min_density + (brightness * (infill.max_density - infill.min_density)) \div 1000

\* min_density + (1 - brightness) * (max_density - min_density), in permille
_brightness_to_density(brightness, infill) ==
    infill.min_density
        + ((1000 - brightness) * (infill.max_density - infill.min_density)) \div 1000

\* max(min_density, min(max_density, density))
clamp_density(density, infill) == Max(infill.min_density, Min(infill.max_density, density))

\* the floor of base_spacing, 0.01 mm
BaseSpacingFloor == 1

\* the floor of the density divisor, 1e-3, in permille
DensityFloor == 1

spacing_of_Multiplied(infill, density) ==
    (Max(infill.base_spacing, BaseSpacingFloor) * Max(density, DensityFloor)) \div 1000

\* spacing = max(base_spacing, 0.01) / max(density, 1e-3); the inputs are
\* chosen so that the quotient is a whole number of units
spacing_of(infill, density) ==
    (Max(infill.base_spacing, BaseSpacingFloor) * 1000) \div Max(density, DensityFloor)

\* whether spacing_of is exact for the density
SpacingExact(infill, density) ==
    (Max(infill.base_spacing, BaseSpacingFloor) * 1000) % Max(density, DensityFloor) = 0

\* the threshold as a quarter of spacing alone
merge_tolerance4_OfSpacing(infill, spacing) == Max(spacing, 0)

\* merge_tolerance (lines 276-277), times four: min(spacing, base_spacing);
\* its floor of 1e-4 is below the model's resolution and admits distance 0 only
merge_tolerance4(infill, spacing) == Max(Min(spacing, infill.base_spacing), 0)

\* the body of the for loop (lines 280-327) for the angle at 1-based position i
angle_pass(polygon, infill, spacing, tolerance4, perimeter_loops, i) ==
    WithValue(pass_toolpaths(polygon, infill.angles[i], spacing), LAMBDA segments :
    WithValue(alternating(segments, i - 1), LAMBDA lines :
        [segments |-> segments,
         alternating |-> lines,
         merged |-> _merge_boustrophedon(lines, tolerance4, perimeter_loops)]))

generate_rectilinear_infill(polygon, density, infill) ==
    IF is_empty(polygon) \/ area(polygon) <= 0 THEN <<>>
    ELSE IF clamp_density(density, infill) <= 0 THEN <<>>
    ELSE WithValue(spacing_of(infill, clamp_density(density, infill)), LAMBDA spacing :
         WithValue(merge_tolerance4(infill, spacing), LAMBDA tolerance4 :
         WithValue(_build_perimeter_loops(polygon), LAMBDA perimeter_loops :
             _glue_polylines(
                 _interleave_orientations(
                     [i \in 1..Len(infill.angles) |->
                         angle_pass(polygon, infill, spacing, tolerance4, perimeter_loops,
                                    i).merged]),
                 tolerance4, perimeter_loops))))

-----------------------------------------------------------------------------
(* Toolpaths (gcode.py 20-26, 137-147) *)


\* Toolpath(points, tag, source_color, assigned_color=None, brightness)
Toolpath(points, tag, source_color, brightness) ==
    [points |-> points, tag |-> tag, source_color |-> source_color,
     assigned_color |-> None, brightness |-> brightness]

\* toolpaths_from_polylines without the filter of line 146
toolpaths_from_polylines_KeepAll(polylines, tag, source_color, brightness) ==
    [i \in 1..Len(polylines) |-> Toolpath(polylines[i], tag, source_color, brightness)]

\* toolpaths_from_polylines: one Toolpath per polyline of at least two points
toolpaths_from_polylines(polylines, tag, source_color, brightness) ==
    LET Keep(polyline) == Len(polyline) >= 2
    IN WithValue(SelectSeq(polylines, Keep), LAMBDA kept :
           [i \in 1..Len(kept) |-> Toolpath(kept[i], tag, source_color, brightness)])

-----------------------------------------------------------------------------
(* Configuration (config.py 78-92, 240-245; gui.py 1238-1242) *)

\* mapping.get(key, default)
DictGet(mapping, key, default) == IF key \in DOMAIN mapping THEN mapping[key] ELSE default

\* the defaults of load_config: 0.45 mm, 1.0, 0.8 mm
DefaultThickness == 45
DefaultPerimeterDensity == 1000
DefaultMinFillWidth == 80

\* PerimeterConfig(thickness, density, min_fill_width): the dataclass has
\* these three fields and no other
PerimeterConfig(thickness, density, min_fill_width) ==
    [thickness |-> thickness, density |-> density, min_fill_width |-> min_fill_width]

\* load_config, the perimeter section: keys other than the three read here
\* are ignored
load_config_perimeter(perimeter_raw) ==
    PerimeterConfig(DictGet(perimeter_raw, "thickness_mm", DefaultThickness),
                    DictGet(perimeter_raw, "density", DefaultPerimeterDensity),
                    DictGet(perimeter_raw, "min_fill_width_mm", DefaultMinFillWidth))

\* the settings tab of the GUI: three spin boxes for the perimeter
gui_perimeter(perimeter_raw) ==
    PerimeterConfig(DictGet(perimeter_raw, "thickness_mm", DefaultThickness),
                    DictGet(perimeter_raw, "density", DefaultPerimeterDensity),
                    DictGet(perimeter_raw, "min_fill_width_mm", DefaultMinFillWidth))

\* a perimeter object put together by a caller of generate_toolpaths_for_shapes
\* with every attribute that _build_toolpaths reads
caller_perimeter(perimeter_raw) ==
    [thickness |-> DictGet(perimeter_raw, "thickness_mm", DefaultThickness),
     density |-> DictGet(perimeter_raw, "density", DefaultPerimeterDensity),
     min_fill_width |-> DictGet(perimeter_raw, "min_fill_width_mm", DefaultMinFillWidth),
     count |-> DictGet(perimeter_raw, "count", 1),
     min_fill_mode |-> DictGet(perimeter_raw, "min_fill_mode", "min")]

\* hasattr(object, name)
HasAttr(object, name) == name \in DOMAIN object

-----------------------------------------------------------------------------
(* Fill regions and toolpaths of a shape (cli.py 96-154, 188-294) *)

\* a.intersection(b)
intersection(a, b) ==
    IF is_empty(a) \/ is_empty(b) THEN EmptyGeometry
    ELSE WithValue(GCD(a.g, b.g), LAMBDA g :
             MkGeom(g, Refine(a, a.g \div g).cells \cap Refine(b, b.g \div g).cells))

\* the edge lengths of polygon.minimum_rotated_rectangle; for the regions
\* used here that rectangle is the bounding box
RectangleEdges(polygon) ==
    WithValue(bounds(polygon), LAMBDA b : <<b[3] - b[1], b[4] - b[2]>>)

_max_dimension(polygon) ==
    IF is_empty(polygon) THEN 0
    ELSE WithValue(RectangleEdges(polygon), LAMBDA e : Max(e[1], e[2]))

_min_dimension(polygon) ==
    IF is_empty(polygon) THEN 0
    ELSE WithValue(RectangleEdges(polygon), LAMBDA e : Min(e[1], e[2]))

_fill_dimension_AlwaysMin(polygon, mode) == _min_dimension(polygon)

_fill_dimension(polygon, mode) ==
    IF mode = "max" THEN _max_dimension(polygon) ELSE _min_dimension(polygon)

HasArea(part) == ~is_empty(part) /\ area(part) > 0

\* _select_infill_regions without the decomposition of line 142
_select_infill_regions_Undecomposed(polygon0, min_fill_width, min_fill_mode) ==
    WithValue(_clean_geometry(polygon0), LAMBDA polygon :
        IF is_empty(polygon) THEN <<>> ELSE <<polygon>>)

\* _select_infill_regions; min_fill_width is a whole number of units and, in
\* "min" mode, even, so that the opening radius is one
_select_infill_regions(polygon0, min_fill_width, min_fill_mode) ==
    WithValue(_clean_geometry(polygon0), LAMBDA polygon :
        IF is_empty(polygon) THEN <<>>
        ELSE IF min_fill_width <= 0 THEN _geometry_to_polygons(polygon)
        ELSE IF min_fill_mode = "max"
        THEN IF _fill_dimension(polygon, min_fill_mode) >= min_fill_width
             THEN <<polygon>> ELSE <<>>
        ELSE WithValue(Max(min_fill_width \div 2, StepFloor), LAMBDA radius :
             WithValue(_clean_geometry(buffer(polygon, -radius)), LAMBDA eroded :
                 IF is_empty(eroded) THEN <<>>
                 ELSE WithValue(_clean_geometry(buffer(eroded, radius)), LAMBDA reopened :
                      WithValue(_clean_geometry(intersection(reopened, polygon)),
                                LAMBDA clipped :
                          SelectSeq(_geometry_to_polygons(clipped), HasArea))))))

\* ShapeGeometry(geometry, brightness, stroke_width, color); stroke_width is
\* None or Some(width)
ShapeGeometry(geometry, brightness, stroke_width, color) ==
    [geometry |-> geometry, brightness |-> brightness, stroke_width |-> stroke_width,
     color |-> color]

\* str(value).strip().lower() for the mode strings in use
StripLower(text) == IF text \in {"max", "Max", " MAX "} THEN "max"
                    ELSE IF text \in {"min", "Min"} THEN "min" ELSE text

\* the result of handling one shape: the toolpaths it adds, and a record of
\* the calls made for it
ShapeResult(toolpaths, perimeter_calls, infill_calls) ==
    [toolpaths |-> toolpaths, perimeter_calls |-> perimeter_calls,
     infill_calls |-> infill_calls]

\* the second list put before the first
JoinResults_Swapped(a, b) ==
    ShapeResult(b.toolpaths \o a.toolpaths, b.perimeter_calls \o a.perimeter_calls,
                b.infill_calls \o a.infill_calls)

\* toolpaths.extend (cli.py 253-260, 286-293): the second list after the first
JoinResults(a, b) ==
    ShapeResult(a.toolpaths \o b.toolpaths, a.perimeter_calls \o b.perimeter_calls,
                a.infill_calls \o b.infill_calls)

RECURSIVE JoinAll(_)
JoinAll(results) ==
    IF results = <<>> THEN ShapeResult(<<>>, <<>>, <<>>)
    ELSE WithValue(JoinAll(Tail(results)), LAMBDA rest : JoinResults(Head(results), rest))

\* _build_stroke_toolpaths for a shape with a stroke width
_build_stroke_toolpaths(shape, config, choice) ==
    IF shape.stroke_width = None THEN ShapeResult(<<>>, <<>>, <<>>)
    ELSE ShapeResult(
             toolpaths_from_polylines(
                 _generate_perimeter_loops(shape.geometry, config.perimeter.thickness,
                                           shape.stroke_width[1],
                                           config.sampling.outline_simplify_tolerance, choice),
                 "outline", shape.color, shape.brightness),
             <<[polygon |-> shape.geometry, step |-> config.perimeter.thickness,
                target_width |-> shape.stroke_width[1]]>>,
             <<>>)

\* lines 275-293: the infill of one interior geometry
InteriorInfill(interior_geom, shape, density, config, min_fill_width, min_fill_mode) ==
    WithValue(_geometry_to_polygons(_clean_geometry(interior_geom)), LAMBDA infill_polys :
    WithValue(Flatten([k \in 1..Len(infill_polys) |->
                          _select_infill_regions(_clean_geometry(infill_polys[k]),
                                                 min_fill_width, min_fill_mode)]),
              LAMBDA fill_regions :
        ShapeResult(
            Flatten([k \in 1..Len(fill_regions) |->
                        toolpaths_from_polylines(
                            generate_rectilinear_infill(fill_regions[k], density, config.infill),
                            "infill", shape.color, shape.brightness)]),
            <<>>,
            fill_regions)))

\* lines 238-293: one polygon of a filled shape
\* settings holds perimeter_width, perimeter_count, min_fill_width and
\* min_fill_mode of lines 209-214
PolygonToolpaths(polygon0, shape, density, config, settings, choice) ==
    WithValue(_clean_geometry(polygon0), LAMBDA polygon :
    WithValue(IF settings.perimeter_width > 0
              THEN _clean_geometry(
                       buffer(polygon, -(settings.perimeter_width
                                         * Max(settings.perimeter_count - 1, 0))))
              ELSE polygon, LAMBDA interior_geom :
        JoinResults(
            IF settings.perimeter_width > 0
            THEN ShapeResult(
                     toolpaths_from_polylines(
                         _generate_perimeter_loops(polygon, settings.perimeter_width,
                             settings.perimeter_width * settings.perimeter_count,
                             config.sampling.outline_simplify_tolerance, choice),
                         "outline", shape.color, shape.brightness),
                     <<[polygon |-> polygon, step |-> settings.perimeter_width,
                        target_width |-> settings.perimeter_width * settings.perimeter_count]>>,
                     <<>>)
            ELSE ShapeResult(<<>>, <<>>, <<>>),
            IF ~is_empty(interior_geom)
            THEN InteriorInfill(interior_geom, shape, density, config,
                                settings.min_fill_width, settings.min_fill_mode)
            ELSE ShapeResult(<<>>, <<>>, <<>>))))

\* the loop body without the test of line 216: every shape handled as filled
ShapeToolpaths_IgnoreStroke(shape, config, settings, choice) ==
    IF is_empty(shape.geometry) THEN ShapeResult(<<>>, <<>>, <<>>)
    ELSE WithValue(_geometry_to_polygons(shape.geometry), LAMBDA polygons :
             JoinAll([k \in 1..Len(polygons) |->
                         PolygonToolpaths(polygons[k], shape,
                             _brightness_to_density(shape.brightness, config.infill), config,
                             settings, choice)]))

\* lines 215-293: the body of the loop over the shapes
ShapeToolpaths(shape, config, settings, choice) ==
    IF shape.stroke_width # None THEN _build_stroke_toolpaths(shape, config, choice)
    ELSE IF is_empty(shape.geometry) THEN ShapeResult(<<>>, <<>>, <<>>)
    ELSE WithValue(_geometry_to_polygons(shape.geometry), LAMBDA polygons :
             JoinAll([k \in 1..Len(polygons) |->
                         PolygonToolpaths(polygons[k], shape,
                             _brightness_to_density(shape.brightness, config.infill), config,
                             settings, choice)]))

-----------------------------------------------------------------------------
(* Colour planning (cli.py 340-446) *)

\* a palette colour "#RRGGBB" is the sequence of its six hexadecimal digits
_hex_to_rgb(color) ==
    <<16 * color[1] + color[2], 16 * color[3] + color[4], 16 * color[5] + color[6]>>

\* the square of _color_distance
_color_distance(a, b) ==
    (a[1] - b[1]) * (a[1] - b[1]) + (a[2] - b[2]) * (a[2] - b[2])
        + (a[3] - b[3]) * (a[3] - b[3])

\* _GRAY_SATURATION_THRESHOLD = 0.08, in hundredths
GraySaturationThreshold == 8

\* _rgb_brightness, times 255000
_rgb_brightness(rgb) == 299 * rgb[1] + 587 * rgb[2] + 114 * rgb[3]

\* _rgb_saturation as the fraction <<numerator, denominator>>; 0 when maxc = 0
_rgb_saturation(rgb) ==
    LET maxc == Max(rgb[1], Max(rgb[2], rgb[3]))
        minc == Min(rgb[1], Min(rgb[2], rgb[3]))
    IN IF maxc = 0 THEN <<0, 1>> ELSE <<maxc - minc, maxc>>

\* sat <= _GRAY_SATURATION_THRESHOLD
IsGraySaturation(sat) == 100 * sat[1] <= GraySaturationThreshold * sat[2]

\* palette_order[color]: a later duplicate of a colour overwrites its index
palette_order(palette, color) ==
    CHOOSE i \in 1..Len(palette) :
        palette[i] = color /\ \A j \in (i + 1)..Len(palette) : palette[j] # color

\* the keys of a dict built from a list: the distinct entries, first occurrences
DictKeys(seq) ==
    LET IsFirst(i) == \A j \in 1..(i - 1) : seq[j] # seq[i]
        idx == SelectSeq([i \in 1..Len(seq) |-> i], IsFirst)
    IN [k \in 1..Len(idx) |-> seq[idx[k]]]

\* grayscale_palette (line 418)
grayscale_palette(palette) ==
    LET IsGray(color) == IsGraySaturation(_rgb_saturation(_hex_to_rgb(color)))
    IN SelectSeq(DictKeys(palette), IsGray)

\* min(candidates, key=lambda color: (Key(color), palette_order[color]))
MinByKey(candidates, Key(_), palette) ==
    LET Less(a, b) == \/ Key(a) < Key(b)
                      \/ Key(a) = Key(b) /\ palette_order(palette, a) < palette_order(palette, b)
        i0 == CHOOSE i \in 1..Len(candidates) :
                 /\ \A j \in 1..Len(candidates) : ~Less(candidates[j], candidates[i])
                 /\ \A j \in 1..(i - 1) : Less(candidates[i], candidates[j])
    IN candidates[i0]

_find_closest_palette_color(source, palette) ==
    LET source_sat == _rgb_saturation(source)
        source_brightness == _rgb_brightness(source)
        gray == grayscale_palette(palette)
        BrightnessKey(color) == Abs(source_brightness - _rgb_brightness(_hex_to_rgb(color)))
        DistanceKey(color) == _color_distance(source, _hex_to_rgb(color))
    IN IF gray # <<>> /\ IsGraySaturation(source_sat)
       THEN MinByKey(gray, BrightnessKey, palette)
       ELSE MinByKey(palette, DistanceKey, palette)

_toolpath_length_Chord(toolpath) ==
    LET points == toolpath.points
    IN Hypot(points[Len(points)][1] - points[1][1], points[Len(points)][2] - points[1][2])

_toolpath_length(toolpath) ==
    LET points == toolpath.points
    IN SeqSum([i \in 1..(Len(points) - 1) |->
                  Hypot(points[i + 1][1] - points[i][1], points[i + 1][2] - points[i][2])])

fallback_rgb == <<0, 0, 0>>

best_color_SkipUncoloured(toolpath, palette) ==
    IF toolpath.source_color = None THEN None
    ELSE _find_closest_palette_color(toolpath.source_color, palette)

\* lines 425-433: best_color of one toolpath
best_color(toolpath, palette) ==
    _find_closest_palette_color(
        IF toolpath.source_color = None THEN fallback_rgb ELSE toolpath.source_color,
        palette)

\* palette_order.get(color, math.inf)
palette_order_get(palette, color) ==
    IF \E i \in 1..Len(palette) : palette[i] = color
    THEN palette_order(palette, color) ELSE Len(palette) + 1

\* sorted(colors, key=lambda color: (usage[color], palette_order.get(color, inf)))
SortedColors(colors, usage, palette) ==
    LET Before(a, b) ==
            \/ usage[a] < usage[b]
            \/ /\ usage[a] = usage[b]
               /\ palette_order_get(palette, a) < palette_order_get(palette, b)
        Rank(c) == Cardinality({k \in 1..Len(colors) : Before(colors[k], c)}) + 1
    IN [r \in 1..Len(colors) |-> colors[CHOOSE k \in 1..Len(colors) : Rank(colors[k]) = r]]

PlanEnabled_IgnoreMode(printer) == printer.available_colors # <<>>

\* line 410: not (not printer.color_mode or not printer.available_colors)
PlanEnabled(printer) == printer.color_mode /\ printer.available_colors # <<>>

\* _plan_color_sequence: the plan (or None) and the toolpaths with their
\* assigned colours.  A group holds the indices of its toolpaths in the list.
_plan_color_sequence(toolpaths, printer) ==
    IF ~PlanEnabled(printer)
    THEN [plan |-> None, toolpaths |-> toolpaths]
    ELSE WithValue(printer.available_colors, LAMBDA palette :
         WithValue([i \in 1..Len(toolpaths) |-> best_color(toolpaths[i], palette)],
                   LAMBDA best :
         WithValue([i \in 1..Len(toolpaths) |->
                       [toolpaths[i] EXCEPT !.assigned_color = best[i]]],
                   LAMBDA assigned :
             IF Len(toolpaths) = 0 THEN [plan |-> None, toolpaths |-> assigned]
             ELSE WithValue(DictKeys(best), LAMBDA colors :
                  WithValue([c \in {colors[k] : k \in 1..Len(colors)} |->
                               SeqSum([i \in 1..Len(toolpaths) |->
                                          IF best[i] = c THEN _toolpath_length(toolpaths[i])
                                          ELSE 0])],
                            LAMBDA usage :
                  WithValue(SortedColors(colors, usage, palette), LAMBDA ordered_colors :
                      [plan |-> Some(
                          [ordered_colors |-> ordered_colors,
                           groups |-> [g \in 1..Len(ordered_colors) |->
                               <<ordered_colors[g],
                                 LET InGroup(i) == best[i] = ordered_colors[g]
                                 IN SelectSeq([i \in 1..Len(toolpaths) |-> i], InGroup)>>],
                           usage_by_color |-> usage]),
                       toolpaths |-> assigned]))))))

\* the infill generator before any call
MergeIdle ==
    /\ mg_pc = "idle" /\ mg_lines = <<>> /\ mg_max_gap4 = 0 /\ mg_loops = <<>>
    /\ mg_st = <<>> /\ mg_result = <<>>

\* no main window
GuiIdle ==
    /\ gu_config = <<>> /\ gu_models = <<>> /\ gu_selected = 0 /\ gu_toolpaths = <<>>
    /\ gu_status = ""

GlueIdle ==
    /\ gl_pc = "idle" /\ gl_polylines = <<>> /\ gl_tolerance4 = 0 /\ gl_loops = <<>>
    /\ gl_index = 0 /\ gl_st = <<>> /\ gl_result = <<>>

InterleaveIdle ==
    /\ il_pc = "idle" /\ il_angle_polylines = <<>> /\ il_candidates = <<>>
    /\ il_point = <<>> /\ il_chosen = <<>> /\ il_result = <<>>

UtilIdle == uc_pc = "idle" /\ uc_op = "" /\ uc_args = <<>> /\ uc_result = <<>>

BuildIdle ==
    /\ bt_pc = "idle" /\ bt_source = "caller" /\ bt_raw = <<>> /\ bt_config = <<>>
    /\ bt_shapes = <<>> /\ bt_settings = <<>> /\ bt_index = 0 /\ bt_results = <<>>
    /\ bt_toolpaths = <<>> /\ bt_error = <<>>

InfillIdle ==
    /\ in_pc = "idle" /\ in_polygon = EmptyGeometry /\ in_brightness = 0
    /\ in_config = None /\ in_density = 0 /\ in_spacing = 0 /\ in_tolerance4 = 0
    /\ in_loops = <<>>
    /\ in_index = 0 /\ in_segments = <<>> /\ in_alternating = <<>>
    /\ in_angle_paths = <<>> /\ in_result = <<>>

\* the colour planner before any call
ColorIdle ==
    /\ cp_pc = "idle" /\ cp_printer = [color_mode |-> FALSE, available_colors |-> <<>>]
    /\ cp_toolpaths = <<>> /\ cp_plan = None /\ cp_calls = 0

-----------------------------------------------------------------------------
(* GcodeGenerator (gcode.py 29-134) *)

\* an emitted line: the command word, its argument, the F word (None when
\* the line has none, else Some(feedrate)); by and z record the emitting routine and the tracked
\* pen height at the time
Line(cmd, arg, feed, by, z) == [cmd |-> cmd, arg |-> arg, feed |-> feed, by |-> by, z |-> z]

\* GcodeGenerator(printer)
GcodeGenerator(printer) ==
    [gcode |-> <<>>, position |-> None, z_height |-> printer.z_travel,
     feedrate |-> None, elapsed_time |-> 0]

_emit(gen, line) == [gen EXCEPT !.gcode = Append(@, line)]

\* distance / (feedrate / 60) in units of 0.0001 s, for a distance in units of
\* 0.01 mm and a feedrate in mm/min that divides 6000
MotionTime(distance, feedrate) == distance * (6000 \div feedrate)

_accumulate_motion_time(gen, distance, feedrate) ==
    IF distance <= 0 \/ feedrate <= 0 THEN gen
    ELSE [gen EXCEPT !.elapsed_time = @ + MotionTime(distance, feedrate)]

\* _rapid_move ("G0") and _linear_move ("G1")
XYMove(gen, cmd, point, feedrate) ==
    IF gen.position = point THEN gen
    ELSE LET timed == IF gen.position # None
                      THEN _accumulate_motion_time(gen,
                               Hypot(gen.position[1] - point[1], gen.position[2] - point[2]),
                               feedrate)
                      ELSE gen
             line == Line(cmd, point, IF gen.feedrate # Some(feedrate) THEN Some(feedrate) ELSE None,
                          "move", gen.z_height)
         IN [_emit(timed, line) EXCEPT !.feedrate = Some(feedrate), !.position = point]

_rapid_move(gen, point, feedrate) == XYMove(gen, "G0", point, feedrate)

_linear_move(gen, point, feedrate) == XYMove(gen, "G1", point, feedrate)

_set_z(gen, z, feedrate) ==
    IF gen.z_height = z THEN gen
    ELSE LET line == Line("G1Z", z, IF gen.feedrate # Some(feedrate) THEN Some(feedrate) ELSE None,
                          "z", gen.z_height)
         IN _accumulate_motion_time(
                [_emit(gen, line) EXCEPT !.feedrate = Some(feedrate), !.z_height = z],
                Abs(gen.z_height - z), feedrate)

RECURSIVE LinearMoves(_, _, _, _)
\* for point in points[i:]: _linear_move(point, draw_feed)
LinearMoves(gen, points, i, feedrate) ==
    IF i > Len(points) THEN gen
    ELSE WithValue(_linear_move(gen, points[i], feedrate),
                   LAMBDA moved : LinearMoves(moved, points, i + 1, feedrate))

\* the call without the lift of line 120
draw_single_toolpath_NoLift(gen, toolpath, printer) ==
    IF Len(toolpath.points) < 2 THEN gen
    ELSE WithValue(_set_z(gen, printer.z_travel, printer.feedrates.z_feedrate), LAMBDA g1 :
         WithValue(_rapid_move(g1, toolpath.points[1], printer.feedrates.travel_feedrate),
                   LAMBDA g2 :
         WithValue(_set_z(g2, printer.z_draw, printer.feedrates.z_feedrate), LAMBDA g3 :
             LinearMoves(g3, toolpath.points, 2, printer.feedrates.draw_feedrate))))

draw_single_toolpath(gen, toolpath, printer) ==
    IF Len(toolpath.points) < 2 THEN gen
    ELSE WithValue(_set_z(gen, printer.z_travel, printer.feedrates.z_feedrate), LAMBDA g1 :
         WithValue(_rapid_move(g1, toolpath.points[1], printer.feedrates.travel_feedrate),
                   LAMBDA g2 :
         WithValue(_set_z(g2, printer.z_draw, printer.feedrates.z_feedrate), LAMBDA g3 :
         WithValue(LinearMoves(g3, toolpath.points, 2, printer.feedrates.draw_feedrate),
                   LAMBDA g4 :
             _set_z(g4, printer.z_travel, printer.feedrates.z_feedrate)))))

RECURSIVE EmitAll(_, _, _, _)
\* for line in lines[i:]: self._emit(line)
EmitAll(gen, lines, i, by) ==
    IF i > Len(lines) THEN gen
    ELSE WithValue(_emit(gen, Line("raw", lines[i], None, by, gen.z_height)),
                   LAMBDA g : EmitAll(g, lines, i + 1, by))

emit_header(gen, printer) == EmitAll(gen, printer.start_gcode, 1, "header")

emit_footer(gen, printer) == EmitAll(gen, printer.end_gcode, 1, "footer")

emit_comment(gen, text) == _emit(gen, Line(";", text, None, "comment", gen.z_height))

\* the writer before any call
WriteIdle ==
    /\ gw_pc = "idle" /\ gw_printer = None /\ gw_toolpaths = <<>> /\ gw_plan = None
    /\ gw_gen = None /\ gw_group = 0 /\ gw_path = 0 /\ gw_drawn = <<>>

-----------------------------------------------------------------------------
(* _generate_perimeter_loops step by step *)

MaxStep == 2
MaxTarget == 4
MaxTolerance == 1

\* a square, a frame (a square with a hole), two squares joined by a neck
\* (it splits when it shrinks), a strip and an invalid square
SamplePolygons ==
    << MkGeom(2, RectCells(0, 0, 3, 3)),
       MkGeom(2, RectCells(0, 0, 5, 5) \ {<<2, 2>>}),
       MkGeom(2, RectCells(0, 0, 3, 3) \cup {<<3, 1>>} \cup RectCells(4, 0, 3, 3)),
       MkGeom(1, RectCells(0, 0, 4, 1)),
       [MkGeom(4, RectCells(0, 0, 2, 2)) EXCEPT !.valid = FALSE],
       EmptyGeometry >>

PerimIdle ==
    /\ pl_pc = "idle" /\ pl_polygon = EmptyGeometry /\ pl_step0 = 0 /\ pl_step = 0
    /\ pl_target = 0 /\ pl_tol = 0 /\ pl_passes = 0 /\ pl_done = 0
    /\ pl_current = EmptyGeometry /\ pl_loops = <<>> /\ pl_rings = 0 /\ pl_log = <<>>

\* lines 163-169: the call, up to the for loop
PerimCall ==
    /\ pl_pc \in {"idle", "done"}
    /\ \E i \in 1..Len(SamplePolygons), step \in 0..MaxStep,
          target_width \in 0..MaxTarget, tolerance \in 0..MaxTolerance :
        /\ pl_polygon' = SamplePolygons[i]
        /\ pl_step0' = step
        /\ pl_step' = Max(step, StepFloor)
        /\ pl_target' = target_width
        /\ pl_tol' = tolerance
        /\ pl_passes' = max_passes(step, target_width)
        /\ pl_current' = _clean_geometry(SamplePolygons[i])
    /\ pl_done' = 0
    /\ pl_loops' = <<>>
    /\ pl_rings' = 0
    /\ pl_log' = <<>>
    /\ pl_pc' = "loop"
    /\ UNCHANGED <<cp_vars, gw_vars, in_vars, bt_vars, uc_vars, mg_vars, il_vars, gl_vars, gu_vars>>

\* lines 171-183: one pass that emits loops and shrinks the region
PerimPass ==
    /\ pl_pc = "loop"
    /\ pl_done < pl_passes
    /\ \E current \in {_clean_geometry(pl_current)} :
          /\ ~(is_empty(current) \/ area(current) <= 0)
          /\ \E choice \in SimplifyChoices, rings \in {PassRings(current)} :
                   /\ pl_loops' = pl_loops \o LoopsOfRings(rings, pl_tol, choice)
                   /\ pl_rings' = Max(pl_rings, Len(rings))
                   /\ pl_log' = pl_log \o [i \in 1..Len(rings) |->
                                   [coords |-> rings[i],
                                    simplified |-> simplify(rings[i], Max(pl_tol, 0), choice),
                                    out |-> _ring_to_polyline(rings[i], pl_tol, choice)]]
          /\ pl_current' = buffer(current, -pl_step)
    /\ pl_done' = pl_done + 1
    /\ UNCHANGED <<pl_pc, pl_polygon, pl_step0, pl_step, pl_target, pl_tol, pl_passes>>
    /\ UNCHANGED <<cp_vars, gw_vars, in_vars, bt_vars, uc_vars, mg_vars, il_vars, gl_vars, gu_vars>>

\* lines 173-174, 185: the region vanished; break and return
PerimBreak ==
    /\ pl_pc = "loop"
    /\ pl_done < pl_passes
    /\ \E current \in {_clean_geometry(pl_current)} :
          /\ is_empty(current) \/ area(current) <= 0
          /\ pl_current' = current
    /\ pl_loops' = SelectSeq(pl_loops, AtLeastTwo)
    /\ pl_pc' = "done"
    /\ UNCHANGED <<pl_polygon, pl_step0, pl_step, pl_target, pl_tol, pl_passes, pl_done,
                   pl_rings, pl_log>>
    /\ UNCHANGED <<cp_vars, gw_vars, in_vars, bt_vars, uc_vars, mg_vars, il_vars, gl_vars, gu_vars>>

\* line 185: the loop ran max_passes times; return
PerimReturn ==
    /\ pl_pc = "loop"
    /\ pl_done = pl_passes
    /\ pl_loops' = SelectSeq(pl_loops, AtLeastTwo)
    /\ pl_pc' = "done"
    /\ UNCHANGED <<pl_polygon, pl_step0, pl_step, pl_target, pl_tol, pl_passes, pl_done,
                   pl_current, pl_rings, pl_log>>
    /\ UNCHANGED <<cp_vars, gw_vars, in_vars, bt_vars, uc_vars, mg_vars, il_vars, gl_vars, gu_vars>>

InitPerim == PerimIdle /\ ColorIdle /\ WriteIdle /\ InfillIdle /\ BuildIdle /\ UtilIdle /\ MergeIdle /\ InterleaveIdle /\ GlueIdle /\ GuiIdle

NextPerim == PerimCall \/ PerimPass \/ PerimBreak \/ PerimReturn

SpecPerim == InitPerim /\ [][NextPerim]_vars

\* the bound the claim gives: ceil(max(target_width, step) / step)
ClaimedLoopBound == CeilDiv(Max(pl_target, pl_step0), pl_step0)

\* C3 as stated: for a positive step, _generate_perimeter_loops returns at
\* most ceil(max(target_width, step)/step) loops, holes and splitting included.
C3_AsStated ==
    (pl_pc = "done" /\ pl_step0 > 0) => Len(pl_loops) <= ClaimedLoopBound

\* C3 amended: for a positive step the loop runs at most
\* ceil(max(target_width, step)/step) passes, and the loops returned are at
\* most that bound times the largest number of rings (exteriors and holes)
\* the region has in a pass; a region that keeps a single ring stays within
\* the bound itself.
C3_PassBound ==
    pl_step0 > 0 =>
        /\ pl_done <= ClaimedLoopBound
        /\ Len(pl_loops) <= ClaimedLoopBound * pl_rings
        /\ (pl_rings <= 1 => Len(pl_loops) <= ClaimedLoopBound)

\* a call that ran every pass it was allowed, on a region with several rings
C3_Witness ==
    /\ pl_pc = "done" /\ pl_step0 > 0 /\ pl_done = ClaimedLoopBound
    /\ pl_done >= 2 /\ pl_rings >= 2 /\ Len(pl_loops) > pl_done

IsClosedLoop(l) == Len(l) >= 2 /\ l[1] = l[Len(l)]

\* C4: every loop of _generate_perimeter_loops is closed, with at least two
\* points and first point = last point; _ring_to_polyline closes what the
\* simplification left open and returns the ring's own coordinates when the
\* simplification left fewer than three points.
C4_LoopsClosed ==
    /\ \A i \in 1..Len(pl_loops) : IsClosedLoop(pl_loops[i])
    /\ \A i \in 1..Len(pl_log) :
        /\ IsClosedLoop(pl_log[i].out)
        /\ Len(pl_log[i].simplified) < 3 => pl_log[i].out = pl_log[i].coords
        /\ Len(pl_log[i].simplified) >= 3 =>
              \/ pl_log[i].out = pl_log[i].simplified
              \/ pl_log[i].out = Append(pl_log[i].simplified, pl_log[i].simplified[1])

\* a returned call in which the simplification left one ring open, which
\* was closed again, and collapsed another to two points, which fell back
C4_Witness ==
    /\ pl_pc = "done" /\ Len(pl_loops) >= 2
    /\ \E i \in 1..Len(pl_log) :
          /\ pl_log[i].simplified[1] # pl_log[i].simplified[Len(pl_log[i].simplified)]
          /\ pl_log[i].out # pl_log[i].simplified
    /\ \E i \in 1..Len(pl_log) :
          /\ Len(pl_log[i].simplified) < 3
          /\ pl_log[i].out = pl_log[i].coords

-----------------------------------------------------------------------------
(* _plan_color_sequence on lists of toolpaths *)

MaxToolpaths == 2
MaxPalette == 3

\* "#000000", "#FFFFFF", "#FF0000", "#00FF00"
PaletteColors ==
    {<<0, 0, 0, 0, 0, 0>>, <<15, 15, 15, 15, 15, 15>>,
     <<15, 15, 0, 0, 0, 0>>, <<0, 0, 15, 15, 0, 0>>}

\* no colour, mid gray, yellow (as far from red as from green), dark red
SourceColors == {None, <<128, 128, 128>>, <<255, 255, 0>>, <<100, 0, 0>>}

\* a stroke of length 2 and an angle of length 4
SamplePolylines ==
    {<<<<0, 0>>, <<2, 0>>>>, <<<<0, 0>>, <<2, 0>>, <<2, 2>>>>}

SampleToolpaths ==
    {Toolpath(pts, "infill", src, 500) : pts \in SamplePolylines, src \in SourceColors}

SeqsUpTo(S, n) == UNION {[1..k -> S] : k \in 0..n}

InitColor ==
    /\ PerimIdle /\ WriteIdle /\ InfillIdle /\ BuildIdle /\ UtilIdle /\ MergeIdle /\ InterleaveIdle /\ GlueIdle /\ GuiIdle
    /\ cp_pc = "input"
    /\ cp_printer \in [color_mode : BOOLEAN, available_colors : SeqsUpTo(PaletteColors, MaxPalette)]
    /\ cp_toolpaths \in SeqsUpTo(SampleToolpaths, MaxToolpaths)
    /\ cp_plan = None
    /\ cp_calls = 0

\* a call of _plan_color_sequence(toolpaths, config); a second call gets the
\* list the first one left
PlanColorSequence ==
    /\ cp_pc \in {"input", "planned"}
    /\ cp_calls < 2
    /\ \E r \in {_plan_color_sequence(cp_toolpaths, cp_printer)} :
          /\ cp_plan' = r.plan
          /\ cp_toolpaths' = r.toolpaths
    /\ cp_pc' = "planned"
    /\ cp_calls' = cp_calls + 1
    /\ UNCHANGED <<cp_printer, pl_vars, gw_vars, in_vars, bt_vars, uc_vars, mg_vars, il_vars, gl_vars, gu_vars>>

NextColor == PlanColorSequence

SpecColor == InitColor /\ [][NextColor]_vars

ColorModeActive == cp_printer.color_mode /\ cp_printer.available_colors # <<>>

PaletteSet == {cp_printer.available_colors[k] : k \in 1..Len(cp_printer.available_colors)}

\* C7: with colour mode on and a non-empty palette, after _plan_color_sequence
\* every toolpath of the list has a non-null assigned_color that is a palette
\* entry, and a second run on the list leaves every assignment as it was.
C7_AssignmentTotal ==
    /\ [](cp_pc = "planned" /\ ColorModeActive =>
            \A i \in 1..Len(cp_toolpaths) :
                /\ cp_toolpaths[i].assigned_color # None
                /\ cp_toolpaths[i].assigned_color \in PaletteSet)
    /\ [][cp_pc = "planned" /\ ColorModeActive => cp_toolpaths' = cp_toolpaths]_vars

\* a planned list in which a toolpath without a source colour and one with a
\* source colour both got palette colours, planned a second time
C7_Witness ==
    /\ cp_pc = "planned" /\ ColorModeActive /\ cp_calls = 2 /\ Len(cp_toolpaths) = 2
    /\ cp_toolpaths[1].source_color = None /\ cp_toolpaths[2].source_color # None
    /\ cp_toolpaths[1].assigned_color # cp_toolpaths[2].assigned_color

\* the source colour a toolpath is matched with
MatchedSource(toolpath) ==
    IF toolpath.source_color = None THEN <<0, 0, 0>> ELSE toolpath.source_color

IsGrayRgb(rgb) ==
    LET maxc == Max(rgb[1], Max(rgb[2], rgb[3]))
        minc == Min(rgb[1], Min(rgb[2], rgb[3]))
    IN maxc = 0 \/ 100 * (maxc - minc) <= GraySaturationThreshold * maxc

\* palette[k] is the earliest entry among those of K that minimise Cost
EarliestMinimum(K, Cost(_), k) ==
    /\ k \in K
    /\ \A j \in K : Cost(k) <= Cost(j) /\ (Cost(j) = Cost(k) => k <= j)

\* C8: the assigned colour of every planned toolpath is, for a near-gray
\* source and a palette with near-gray entries, the near-gray palette entry of
\* least brightness difference, otherwise the palette entry of least RGB
\* distance, the earliest palette entry winning a tie; no source colour
\* counts as black.
C8_AsStated ==
    cp_pc = "planned" /\ ColorModeActive =>
        \A i \in 1..Len(cp_toolpaths) :
            LET palette == cp_printer.available_colors
                source == MatchedSource(cp_toolpaths[i])
                grays == {k \in 1..Len(palette) : IsGrayRgb(_hex_to_rgb(palette[k]))}
                BrightnessCost(k) ==
                    Abs(_rgb_brightness(source) - _rgb_brightness(_hex_to_rgb(palette[k])))
                DistanceCost(k) == _color_distance(source, _hex_to_rgb(palette[k]))
            IN \E k \in 1..Len(palette) :
                  /\ cp_toolpaths[i].assigned_color = palette[k]
                  /\ IF IsGrayRgb(source) /\ grays # {}
                     THEN EarliestMinimum(grays, BrightnessCost, k)
                     ELSE EarliestMinimum(1..Len(palette), DistanceCost, k)

\* the palette lists no colour twice
PaletteDistinct ==
    \A a, b \in 1..Len(cp_printer.available_colors) :
        cp_printer.available_colors[a] = cp_printer.available_colors[b] => a = b

\* the matching rule of C8 on palettes without a repeated entry
C8_DistinctPalettes == PaletteDistinct => C8_AsStated

\* the summed length of the toolpaths that were assigned the colour
GroupLength(color) ==
    SeqSum([i \in 1..Len(cp_toolpaths) |->
               IF cp_toolpaths[i].assigned_color = color
               THEN _toolpath_length(cp_toolpaths[i]) ELSE 0])

\* the index at which the palette first declares the colour
DeclarationIndex(color) ==
    CHOOSE i \in 1..Len(cp_printer.available_colors) :
        /\ cp_printer.available_colors[i] = color
        /\ \A j \in 1..(i - 1) : cp_printer.available_colors[j] # color

\* C9: ordered_colors lists each assigned colour once and nothing else, in
\* ascending order of the summed length of its toolpaths, colours of equal
\* length in the order the palette declares them.
C9_AsStated ==
    cp_pc = "planned" /\ cp_plan # None =>
        LET ordered == cp_plan[1].ordered_colors
        IN /\ \A a, b \in 1..Len(ordered) : ordered[a] = ordered[b] => a = b
           /\ {ordered[a] : a \in 1..Len(ordered)}
                  = {cp_toolpaths[i].assigned_color : i \in 1..Len(cp_toolpaths)}
           /\ \A a, b \in 1..Len(ordered) :
                  a < b =>
                      \/ GroupLength(ordered[a]) < GroupLength(ordered[b])
                      \/ /\ GroupLength(ordered[a]) = GroupLength(ordered[b])
                         /\ DeclarationIndex(ordered[a]) < DeclarationIndex(ordered[b])

\* the ordering of C9 on palettes without a repeated entry
C9_DistinctPalettes == PaletteDistinct => C9_AsStated

-----------------------------------------------------------------------------
(* write_toolpaths_to_gcode step by step *)

\* "#000000", "#FF0000"
WritePaletteColors == {<<0, 0, 0, 0, 0, 0>>, <<15, 15, 0, 0, 0, 0>>}

\* an uncoloured stroke, a yellow angle, a yellow stroke that starts where
\* the first one ends, and a toolpath of a single point
WriteToolpaths ==
    {Toolpath(<<<<0, 0>>, <<2, 0>>>>, "outline", None, 500),
     Toolpath(<<<<0, 2>>, <<2, 2>>, <<2, 4>>>>, "infill", <<255, 255, 0>>, 500),
     Toolpath(<<<<2, 0>>, <<2, 2>>>>, "infill", <<255, 255, 0>>, 500),
     Toolpath(<<<<2, 0>>>>, "outline", None, 500)}

SampleFeedrates == [draw_feedrate |-> 1500, travel_feedrate |-> 3000, z_feedrate |-> 600]

\* pen heights in units of 0.01 mm: 0 mm / 1 mm, and a pen that never lifts
SampleHeights == {<<0, 100>>, <<20, 20>>}

SamplePrinters ==
    {[color_mode |-> mode, available_colors |-> palette, pause_gcode |-> pause,
      start_gcode |-> <<"G28">>, end_gcode |-> <<"M84">>,
      z_draw |-> z[1], z_travel |-> z[2], feedrates |-> SampleFeedrates] :
        mode \in BOOLEAN, palette \in SeqsUpTo(WritePaletteColors, MaxPalette),
        pause \in {<<>>, <<"M25", "M0">>}, z \in SampleHeights}

InitWrite ==
    /\ PerimIdle /\ ColorIdle /\ InfillIdle /\ BuildIdle /\ UtilIdle /\ MergeIdle /\ InterleaveIdle /\ GlueIdle /\ GuiIdle
    /\ gw_pc = "start"
    /\ gw_printer \in SamplePrinters
    /\ gw_toolpaths \in SeqsUpTo(WriteToolpaths, MaxToolpaths)
    /\ gw_plan = None /\ gw_gen = None /\ gw_group = 0 /\ gw_path = 0 /\ gw_drawn = <<>>

\* color_plan and color_plan.ordered_colors
HasPlan(plan) == plan # None /\ plan[1].ordered_colors # <<>>

\* lines 458-467: generator, header, plan, branch
WriteBegin ==
    /\ gw_pc = "start"
    /\ \E r \in {_plan_color_sequence(gw_toolpaths, gw_printer)},
          gen \in {emit_header(GcodeGenerator(gw_printer), gw_printer)} :
          /\ gw_plan' = r.plan
          /\ gw_toolpaths' = r.toolpaths
          /\ IF HasPlan(r.plan)
             THEN /\ gw_gen' = emit_comment(gen, <<"COLOR ORDER", r.plan[1].ordered_colors>>)
                  /\ gw_pc' = "group" /\ gw_group' = 1 /\ gw_path' = 0
             ELSE /\ gw_gen' = gen
                  /\ gw_pc' = "flat" /\ gw_group' = 0 /\ gw_path' = 1
    /\ UNCHANGED <<gw_printer, gw_drawn, pl_vars, cp_vars, in_vars, bt_vars, uc_vars, mg_vars, il_vars, gl_vars, gu_vars>>

\* lines 470-474: the comment that opens a colour group
GroupHead ==
    /\ gw_pc = "group"
    /\ gw_group <= Len(gw_plan[1].groups)
    /\ gw_gen' = emit_comment(gw_gen,
           <<"COLOR", gw_group, Len(gw_plan[1].groups), gw_plan[1].groups[gw_group][1],
             gw_plan[1].usage_by_color[gw_plan[1].groups[gw_group][1]]>>)
    /\ gw_pc' = "paths" /\ gw_path' = 1
    /\ UNCHANGED <<gw_printer, gw_toolpaths, gw_plan, gw_group, gw_drawn, pl_vars, cp_vars, in_vars, bt_vars, uc_vars, mg_vars, il_vars, gl_vars, gu_vars>>

\* lines 475-476: draw_single_toolpath for the next toolpath of the group
GroupDraw ==
    /\ gw_pc = "paths"
    /\ gw_path <= Len(gw_plan[1].groups[gw_group][2])
    /\ \E t \in {gw_plan[1].groups[gw_group][2][gw_path]} :
          /\ gw_gen' = draw_single_toolpath(gw_gen, gw_toolpaths[t], gw_printer)
          /\ gw_drawn' = Append(gw_drawn, t)
    /\ gw_path' = gw_path + 1
    /\ UNCHANGED <<gw_pc, gw_printer, gw_toolpaths, gw_plan, gw_group, pl_vars, cp_vars, in_vars, bt_vars, uc_vars, mg_vars, il_vars, gl_vars, gu_vars>>

pause_commands_Configured(printer) == printer.pause_gcode

\* config.printer.pause_gcode or ["M600"]
pause_commands(printer) == IF printer.pause_gcode = <<>> THEN <<"M600">> ELSE printer.pause_gcode

\* lines 477-481: the filament change after a group that is not the last
GroupPause ==
    /\ gw_pc = "paths"
    /\ gw_path > Len(gw_plan[1].groups[gw_group][2])
    /\ gw_group < Len(gw_plan[1].groups)
    /\ gw_gen' = EmitAll(emit_comment(gw_gen, "Filament change before next color"),
                         pause_commands(gw_printer), 1, "pause")
    /\ gw_pc' = "group" /\ gw_group' = gw_group + 1 /\ gw_path' = 0
    /\ UNCHANGED <<gw_printer, gw_toolpaths, gw_plan, gw_drawn, pl_vars, cp_vars, in_vars, bt_vars, uc_vars, mg_vars, il_vars, gl_vars, gu_vars>>

\* line 483, gcode.py 122-124: draw_toolpaths draws the next toolpath of the list
FlatDraw ==
    /\ gw_pc = "flat"
    /\ gw_path <= Len(gw_toolpaths)
    /\ gw_gen' = draw_single_toolpath(gw_gen, gw_toolpaths[gw_path], gw_printer)
    /\ gw_drawn' = Append(gw_drawn, gw_path)
    /\ gw_path' = gw_path + 1
    /\ UNCHANGED <<gw_pc, gw_printer, gw_toolpaths, gw_plan, gw_group, pl_vars, cp_vars, in_vars, bt_vars, uc_vars, mg_vars, il_vars, gl_vars, gu_vars>>

\* lines 485-487: the time comment and the footer, after the last toolpath
WriteFinish ==
    /\ \/ gw_pc = "flat" /\ gw_path > Len(gw_toolpaths)
       \/ /\ gw_pc = "paths" /\ gw_group = Len(gw_plan[1].groups)
          /\ gw_path > Len(gw_plan[1].groups[gw_group][2])
    /\ gw_gen' = emit_footer(
           emit_comment(gw_gen, <<"Estimated plot time", gw_gen.elapsed_time>>), gw_printer)
    /\ gw_pc' = "done"
    /\ UNCHANGED <<gw_printer, gw_toolpaths, gw_plan, gw_group, gw_path, gw_drawn,
                   pl_vars, cp_vars, in_vars, bt_vars, uc_vars, mg_vars, il_vars, gl_vars, gu_vars>>

NextWrite ==
    WriteBegin \/ GroupHead \/ GroupDraw \/ GroupPause \/ FlatDraw \/ WriteFinish

SpecWrite == InitWrite /\ [][NextWrite]_vars

\* the lines emitted so far that satisfy Test
LinesWhere(Test(_)) == {k \in 1..Len(gw_gen.gcode) : Test(gw_gen.gcode[k])}

\* C10: with colour mode off or an empty palette, write_toolpaths_to_gcode gets
\* no plan, calls draw_single_toolpath on the toolpaths in list order (all of
\* them once the file is complete), and emits neither a colour comment nor a
\* pause line.
C10_NoPlanListOrder ==
    gw_pc \notin {"idle", "start"}
        /\ (~gw_printer.color_mode \/ gw_printer.available_colors = <<>>) =>
            /\ gw_plan = None
            /\ gw_drawn = [k \in 1..Len(gw_drawn) |-> k]
            /\ Len(gw_drawn) <= Len(gw_toolpaths)
            /\ gw_pc = "done" => Len(gw_drawn) = Len(gw_toolpaths)
            /\ \A k \in 1..Len(gw_gen.gcode) :
                  /\ gw_gen.gcode[k].by # "pause"
                  /\ gw_gen.gcode[k].by = "comment" => gw_pc = "done" /\ k = Len(gw_gen.gcode) - 1

\* a finished file of two toolpaths for a printer whose palette is non-empty
\* but whose colour mode is off
C10_Witness ==
    /\ gw_pc = "done" /\ ~gw_printer.color_mode /\ Len(gw_printer.available_colors) = 2
    /\ gw_drawn = <<1, 2>>
    /\ gw_toolpaths[1] # gw_toolpaths[2]

-----------------------------------------------------------------------------
(* generate_rectilinear_infill step by step *)

MaxAngles == 2

\* the 10 x 10 mm square
Square10mm == MkGeom(1000, {<<0, 0>>})

\* the square; a 3 x 3 mm frame around a 1 x 1 mm hole; an L; a block of
\* 0.3 x 0.9 mm on two legs 0.1 mm apart; nothing
InfillPolygons ==
    {Square10mm,
     MkGeom(100, RectCells(0, 0, 3, 3) \ {<<1, 1>>}),
     MkGeom(100, {<<0, 0>>, <<1, 0>>, <<0, 1>>}),
     MkGeom(10, {<<0, 0>>, <<2, 0>>} \cup RectCells(0, 1, 3, 9)),
     EmptyGeometry}

\* base spacing 1 mm with densities 0.1..0.9, 0.25..1 and 0..1, base
\* spacing 0.4 mm with densities 0.25..1, and base spacing 1 mm with the two
\* densities the wrong way round (min_density 1, max_density 0.25), which
\* neither load_config nor the settings tab rejects, and base spacing 1 mm
\* with densities up to 2, which a configuration file may hold
InfillSettings ==
    {<<100, 100, 900>>, <<100, 250, 1000>>, <<100, 0, 1000>>, <<40, 250, 1000>>,
     <<100, 1000, 250>>, <<100, 1000, 2000>>}

InfillConfigs ==
    {[base_spacing |-> p[1], min_density |-> p[2], max_density |-> p[3], angles |-> a] :
        p \in InfillSettings, a \in SeqsUpTo({0, 90}, MaxAngles)}

Brightnesses == {0, 500, 1000}

InitInfill ==
    /\ PerimIdle /\ ColorIdle /\ WriteIdle /\ BuildIdle /\ UtilIdle /\ MergeIdle /\ InterleaveIdle /\ GlueIdle /\ GuiIdle
    /\ in_pc = "call"
    /\ in_polygon \in InfillPolygons
    /\ in_brightness \in Brightnesses
    /\ in_config \in InfillConfigs
    /\ SpacingExact(in_config,
                    clamp_density(_brightness_to_density(in_brightness, in_config), in_config))
    /\ in_density = 0 /\ in_spacing = 0 /\ in_tolerance4 = 0 /\ in_loops = <<>>
    /\ in_index = 0 /\ in_segments = <<>> /\ in_alternating = <<>>
    /\ in_angle_paths = <<>> /\ in_result = <<>>

\* cli.py 283-285 and infill.py 259-278: the density of the shape, the early
\* returns, spacing and perimeter loops
InfillEnter ==
    /\ in_pc = "call"
    /\ \E density \in {clamp_density(_brightness_to_density(in_brightness, in_config),
                                     in_config)} :
          /\ in_density' = density
          /\ IF is_empty(in_polygon) \/ area(in_polygon) <= 0 \/ density <= 0
             THEN /\ in_pc' = "done"
                  /\ UNCHANGED <<in_spacing, in_tolerance4, in_loops, in_index>>
             ELSE /\ in_pc' = "angles"
                  /\ in_spacing' = spacing_of(in_config, density)
                  /\ in_tolerance4' = merge_tolerance4(in_config, spacing_of(in_config, density))
                  /\ in_loops' = _build_perimeter_loops(in_polygon)
                  /\ in_index' = 1
    /\ UNCHANGED <<in_polygon, in_brightness, in_config, in_segments, in_alternating, in_angle_paths,
                   in_result, pl_vars, cp_vars, gw_vars, bt_vars, uc_vars, mg_vars, il_vars, gl_vars, gu_vars>>

\* lines 280-327: sweep, alternate and merge for the next angle
InfillAngle ==
    /\ in_pc = "angles"
    /\ in_index <= Len(in_config.angles)
    /\ \E pass \in {angle_pass(in_polygon, in_config, in_spacing, in_tolerance4, in_loops,
                                in_index)} :
          /\ in_segments' = Append(in_segments, pass.segments)
          /\ in_alternating' = Append(in_alternating, pass.alternating)
          /\ in_angle_paths' = Append(in_angle_paths, pass.merged)
    /\ in_index' = in_index + 1
    /\ UNCHANGED <<in_pc, in_polygon, in_brightness, in_config, in_density, in_spacing,
                   in_tolerance4, in_loops, in_result, pl_vars, cp_vars, gw_vars, bt_vars, uc_vars, mg_vars, il_vars, gl_vars, gu_vars>>

\* lines 329-335: interleave the angles, glue, return
InfillReturn ==
    /\ in_pc = "angles"
    /\ in_index > Len(in_config.angles)
    /\ in_result' = _glue_polylines(_interleave_orientations(in_angle_paths), in_tolerance4,
                                    in_loops)
    /\ in_pc' = "done"
    /\ UNCHANGED <<in_polygon, in_brightness, in_config, in_density, in_spacing, in_tolerance4, in_loops,
                   in_index, in_segments, in_alternating, in_angle_paths,
                   pl_vars, cp_vars, gw_vars, bt_vars, uc_vars, mg_vars, il_vars, gl_vars, gu_vars>>

NextInfill == InfillEnter \/ InfillAngle \/ InfillReturn

SpecInfill == InitInfill /\ [][NextInfill]_vars

\* the coordinate of the scan line that cut the segment, across the sweep
ScanCoordinate(angle, segment) == IF angle = 0 THEN segment[1][2] ELSE segment[1][1]

\* whether the segment runs in the direction of its scan line
RunsForward(angle, segment) ==
    IF angle = 0 THEN segment[1][1] < segment[Len(segment)][1]
    ELSE segment[1][2] < segment[Len(segment)][2]

\* the scan lines of two segments follow one another among the scan lines
\* that bear segments
ConsecutiveLines(angle, lines, i, j) ==
    LET ci == ScanCoordinate(angle, lines[i])
        cj == ScanCoordinate(angle, lines[j])
    IN /\ ci # cj
       /\ \A k \in 1..Len(lines) :
              LET ck == ScanCoordinate(angle, lines[k])
              IN ~(Min(ci, cj) < ck /\ ck < Max(ci, cj))

\* C21 as stated: within one angle pass the drawing direction alternates per
\* scan line: all segments cut by the same scan line get the same direction
\* and consecutive segment-bearing scan lines get opposite directions; on an
\* odd-indexed angle pass the order of the segment list is also reversed.
C21_AsStated ==
    \A a \in 1..Len(in_alternating) :
        LET lines == in_alternating[a]
            segments == in_segments[a]
            angle == in_config.angles[a]
            n == Len(lines)
        IN /\ \A i, j \in 1..n :
                  /\ ScanCoordinate(angle, lines[i]) = ScanCoordinate(angle, lines[j])
                         => RunsForward(angle, lines[i]) = RunsForward(angle, lines[j])
                  /\ ConsecutiveLines(angle, lines, i, j)
                         => RunsForward(angle, lines[i]) # RunsForward(angle, lines[j])
           /\ n = Len(segments)
           /\ \A k \in 1..n :
                  LET origin == IF (a - 1) % 2 = 1 THEN segments[n + 1 - k] ELSE segments[k]
                  IN lines[k] \in {origin, Reverse(origin)}

\* the sweep has begun: spacing, threshold and loops are set
Sweeping == in_pc = "angles" \/ (in_pc = "done" /\ in_loops # <<>>)

\* spacing = max(base_spacing, 0.01) / max(density, 1e-3)
SpacingAsStated ==
    in_spacing * Max(in_density, DensityFloor) = Max(in_config.base_spacing, BaseSpacingFloor) * 1000

\* merge and glue have both been run with the threshold t4
ThresholdUsed(t4) ==
    /\ \A a \in 1..Len(in_angle_paths) :
           in_angle_paths[a] = _merge_boustrophedon(in_alternating[a], t4, in_loops)
    /\ in_pc = "done" =>
           in_result = _glue_polylines(_interleave_orientations(in_angle_paths), t4, in_loops)

\* C22 as stated: merge and glue get one and the same gap threshold, and it
\* equals spacing / 4 (floored at 1e-4), where spacing =
\* max(base_spacing, 0.01) / max(density, 1e-3).
C22_AsStated ==
    Sweeping => /\ SpacingAsStated
                /\ in_tolerance4 = in_spacing
                /\ ThresholdUsed(in_spacing)

\* C22: merge and glue get one and the same gap threshold, and it is the
\* lesser of spacing / 4 and base_spacing / 4 (floored at 1e-4), where
\* spacing = max(base_spacing, 0.01) / max(density, 1e-3).
C22_QuarterOfLesser ==
    Sweeping => /\ SpacingAsStated
                /\ in_tolerance4 = Max(Min(in_spacing, in_config.base_spacing), 0)
                /\ ThresholdUsed(Max(Min(in_spacing, in_config.base_spacing), 0))

\* a call is over in which the spacing was greater than base_spacing and a
\* gap wider than base_spacing / 4 but not wider than spacing / 4 was left
\* open by the merge
C22_Witness ==
    /\ in_pc = "done"
    /\ in_spacing > in_config.base_spacing
    /\ \E a \in 1..Len(in_angle_paths) :
           in_angle_paths[a] # _merge_boustrophedon(in_alternating[a], in_spacing, in_loops)

\* C6: no polyline that generate_rectilinear_infill returns has fewer than
\* two points, and none of the merged runs of an angle has.
C6_RunsHaveTwoPoints ==
    /\ \A k \in 1..Len(in_result) : Len(in_result[k]) >= 2
    /\ \A a \in 1..Len(in_angle_paths) :
          \A k \in 1..Len(in_angle_paths[a]) : Len(in_angle_paths[a][k]) >= 2

\* a returned list in which one run is a merge through a bridge (more than
\* two points) and another is a lone scan segment
C6_Witness ==
    /\ in_pc = "done"
    /\ \E k \in 1..Len(in_result) : Len(in_result[k]) > 2
    /\ \E k \in 1..Len(in_result) : Len(in_result[k]) = 2
    /\ \E a \in 1..Len(in_angle_paths) :
          Len(in_angle_paths[a]) < Len(in_segments[a])

\* the scenario of C1, after the call has returned: the 10 x 10 mm square,
\* brightness 0.5, min_density 0.1, max_density 0.9, base spacing 1.0, angles [0]
SquareScenario ==
    /\ in_pc = "done"
    /\ in_polygon = Square10mm
    /\ in_brightness = 500
    /\ in_config = [base_spacing |-> 100, min_density |-> 100, max_density |-> 900,
                    angles |-> <<0>>]

\* the k-th scan segment is horizontal and spans the square from side to side
SpansSquare(segment) ==
    /\ Len(segment) = 2
    /\ segment[1][2] = segment[2][2]
    /\ {segment[1][1], segment[2][1]} = {0, 1000}

\* C1 as stated: density 0.5, spacing 2.0, five or six spanning horizontal
\* segments, and one polyline of 10 to 12 points returned.
C1_AsStated ==
    SquareScenario =>
        /\ in_density = 500 /\ in_spacing = 200
        /\ Len(in_segments[1]) \in {5, 6}
        /\ \A k \in 1..Len(in_segments[1]) : SpansSquare(in_segments[1][k])
        /\ Len(in_result) = 1
        /\ Len(in_result[1]) \in 10..12

\* C1: in the square scenario density is 0.5 and spacing 2.0, the sweep cuts
\* six spanning horizontal segments (y = 0, 2, .., 10 mm), and the call
\* returns them as six separate two-point polylines in sweep order, every
\* second one reversed: neighbouring segments are 2.0 mm apart, more than
\* the merge tolerance of 0.25 mm, so none is joined to the next.
C1_SquareUnmerged ==
    SquareScenario =>
        /\ in_density = 500 /\ in_spacing = 200
        /\ merge_tolerance4(in_config, in_spacing) = 100
        /\ Len(in_segments[1]) = 6
        /\ \A k \in 1..6 :
              /\ SpansSquare(in_segments[1][k])
              /\ in_segments[1][k][1] = <<0, 200 * (k - 1)>>
        /\ Len(in_result) = 6
        /\ \A k \in 1..6 :
              in_result[k] = IF k % 2 = 0 THEN Reverse(in_segments[1][k])
                             ELSE in_segments[1][k]

\* the square scenario has returned its runs
C1_Witness == SquareScenario /\ in_result # <<>>


\* the density of a brightness under the configuration of the call
DensityOf(brightness) == _brightness_to_density(brightness, in_config)

\* brightness 0 gives max_density and brightness 1 gives min_density
DensityEndpoints ==
    DensityOf(0) = in_config.max_density /\ DensityOf(1000) = in_config.min_density

DensityNonIncreasing ==
    \A b1 \in Brightnesses : \A b2 \in Brightnesses :
        b1 <= b2 => DensityOf(b1) >= DensityOf(b2)

\* once the density is clamped, generate_rectilinear_infill returns nothing
\* for a density of zero or less
EmptyWhenNoDensity == in_pc = "done" /\ in_density <= 0 => in_result = <<>>

\* C15, as stated: the density mapping is non-increasing in brightness, with
\* max_density at brightness 0 and min_density at brightness 1; the density
\* that generate_rectilinear_infill uses lies in [min_density, max_density];
\* and the result is empty when that density is <= 0.
C15_AsStated ==
    /\ DensityNonIncreasing
    /\ DensityEndpoints
    /\ in_pc # "call" =>
           in_config.min_density <= in_density /\ in_density <= in_config.max_density
    /\ EmptyWhenNoDensity

\* C15, amended: the endpoints and the empty result hold for every
\* configuration; the mapping is non-increasing and the density used lies in
\* [min_density, max_density] when min_density <= max_density; when
\* min_density > max_density the density used is min_density for every
\* brightness.
C15_OrderedRange ==
    /\ DensityEndpoints
    /\ EmptyWhenNoDensity
    /\ in_config.min_density <= in_config.max_density =>
           /\ DensityNonIncreasing
           /\ in_pc # "call" =>
                  in_config.min_density <= in_density /\ in_density <= in_config.max_density
    /\ in_config.min_density > in_config.max_density /\ in_pc # "call" =>
           in_density = in_config.min_density

\* a white shape under densities 0..1: the density is 0 and a non-empty
\* polygon gets no infill
C15_Witness ==
    /\ in_pc = "done" /\ ~is_empty(in_polygon) /\ in_brightness = 1000
    /\ in_config.min_density = 0 /\ in_density = 0 /\ in_result = <<>>

-----------------------------------------------------------------------------
(* generate_toolpaths_for_shapes step by step, from the configuration on *)

MaxShapes == 2

ConfigSources == {"load_config", "gui", "caller"}

\* the perimeter section as written by the user: 0.4 mm twice (the square
\* scenario); 1 mm once, no width filter; 1 mm three times, regions at least
\* 2 mm long; no outline; 2 mm once, regions at least 20 mm long
SamplePerimeterRaws ==
    {[thickness_mm |-> 40, count |-> 2],
     [thickness_mm |-> 100, count |-> 1, min_fill_width_mm |-> 0],
     [thickness_mm |-> 100, count |-> 3, min_fill_width_mm |-> 200, min_fill_mode |-> " MAX "],
     [thickness_mm |-> 0, count |-> 2, min_fill_width_mm |-> 200],
     [thickness_mm |-> 200, min_fill_width_mm |-> 2000, min_fill_mode |-> "Max"],
     [thickness_mm |-> 100, count |-> 0, min_fill_mode |-> "widest"]}

BuildInfill == [base_spacing |-> 100, min_density |-> 100, max_density |-> 900, angles |-> <<0>>]

BuildSampling == [outline_simplify_tolerance |-> 0]

\* two squares of 1 mm, 1 mm apart: a geometry of two polygons
TwoSquares == MkGeom(100, {<<0, 0>>, <<2, 0>>})

\* the filled square, a filled frame 1 mm wide, the square's outline stroked
\* 1 mm wide, a shape without geometry, and the two squares filled in red
SampleShapes ==
    {ShapeGeometry(Square10mm, 500, None, None),
     ShapeGeometry(MkGeom(100, RectCells(0, 0, 3, 3) \ {<<1, 1>>}), 500, None, None),
     ShapeGeometry(Square10mm, 500, Some(100), None),
     ShapeGeometry(EmptyGeometry, 500, None, None),
     ShapeGeometry(TwoSquares, 500, None, <<15, 15, 0, 0, 0, 0>>)}

\* the two errors of generate_toolpaths_for_shapes
NoDrawableShapes == Some("RuntimeError: No drawable shapes")

NoToolpathsGenerated == Some("RuntimeError: No toolpaths were generated")

\* a stroke drawn with thickness 0 advances by the smallest step: as many
\* passes as the stroke has units, which the samples leave out
WithinStrokeBudget(perimeter_raw, shapes) ==
    \A k \in 1..Len(shapes) :
        shapes[k].stroke_width # None => DictGet(perimeter_raw, "thickness_mm", 0) > 0

InitBuild ==
    /\ PerimIdle /\ ColorIdle /\ WriteIdle /\ InfillIdle /\ UtilIdle /\ MergeIdle /\ InterleaveIdle /\ GlueIdle /\ GuiIdle
    /\ bt_pc = "start"
    /\ bt_source \in ConfigSources
    /\ bt_raw \in SamplePerimeterRaws
    /\ bt_shapes \in SeqsUpTo(SampleShapes, MaxShapes)
    /\ WithinStrokeBudget(bt_raw, bt_shapes)
    /\ bt_config = <<>> /\ bt_settings = <<>> /\ bt_index = 0 /\ bt_results = <<>>
    /\ bt_toolpaths = <<>> /\ bt_error = None

\* config.py 240-245, gui.py 1238-1242, or a caller's own object
BuildConfig ==
    /\ bt_pc = "start"
    /\ bt_config' = [perimeter |-> IF bt_source = "load_config" THEN load_config_perimeter(bt_raw)
                                   ELSE IF bt_source = "gui" THEN gui_perimeter(bt_raw)
                                   ELSE caller_perimeter(bt_raw),
                     infill |-> BuildInfill,
                     sampling |-> BuildSampling]
    /\ bt_pc' = "configured"
    /\ UNCHANGED <<bt_source, bt_raw, bt_shapes, bt_settings, bt_index, bt_results,
                   bt_toolpaths, bt_error, pl_vars, cp_vars, gw_vars, in_vars, uc_vars, mg_vars, il_vars, gl_vars, gu_vars>>

\* cli.py 297-311, with fit_to_bed=False as the GUI calls it
GenerateCall ==
    /\ bt_pc = "configured"
    /\ IF bt_shapes = <<>>
       THEN bt_pc' = "raised" /\ bt_error' = NoDrawableShapes
       ELSE bt_pc' = "header" /\ bt_error' = bt_error
    /\ UNCHANGED <<bt_source, bt_raw, bt_config, bt_shapes, bt_settings, bt_index, bt_results,
                   bt_toolpaths, pl_vars, cp_vars, gw_vars, in_vars, uc_vars, mg_vars, il_vars, gl_vars, gu_vars>>

\* cli.py 209-214: the perimeter settings are read before the first shape
BuildHeader ==
    /\ bt_pc = "header"
    /\ IF ~HasAttr(bt_config.perimeter, "count")
       THEN /\ bt_pc' = "raised"
            /\ bt_error' = Some("AttributeError: count")
            /\ UNCHANGED <<bt_settings, bt_index>>
       ELSE IF ~HasAttr(bt_config.perimeter, "min_fill_mode")
       THEN /\ bt_pc' = "raised"
            /\ bt_error' = Some("AttributeError: min_fill_mode")
            /\ UNCHANGED <<bt_settings, bt_index>>
       ELSE /\ bt_settings' =
                   Some([perimeter_width |-> Max(bt_config.perimeter.thickness, 0),
                         perimeter_count |-> Max(bt_config.perimeter.count, 1),
                         min_fill_width |-> Max(bt_config.perimeter.min_fill_width, 0),
                         min_fill_mode |->
                             IF StripLower(bt_config.perimeter.min_fill_mode) \in {"min", "max"}
                             THEN StripLower(bt_config.perimeter.min_fill_mode) ELSE "min"])
            /\ bt_index' = 1
            /\ bt_pc' = "shapes"
            /\ bt_error' = bt_error
    /\ UNCHANGED <<bt_source, bt_raw, bt_config, bt_shapes, bt_results, bt_toolpaths,
                   pl_vars, cp_vars, gw_vars, in_vars, uc_vars, mg_vars, il_vars, gl_vars, gu_vars>>

\* cli.py 215-293: one pass of the loop over the shapes
BuildShape ==
    /\ bt_pc = "shapes"
    /\ bt_index <= Len(bt_shapes)
    /\ \E choice \in IF bt_config.sampling.outline_simplify_tolerance <= 0
                     THEN {"all"} ELSE SimplifyChoices :
       \E result \in {ShapeToolpaths(bt_shapes[bt_index], bt_config, bt_settings[1],
                                     choice)} :
           /\ bt_results' = Append(bt_results, result)
           /\ bt_toolpaths' = bt_toolpaths \o result.toolpaths
    /\ bt_index' = bt_index + 1
    /\ UNCHANGED <<bt_pc, bt_source, bt_raw, bt_config, bt_shapes, bt_settings, bt_error,
                   pl_vars, cp_vars, gw_vars, in_vars, uc_vars, mg_vars, il_vars, gl_vars, gu_vars>>

\* cli.py 294 and 312-324
GenerateReturn ==
    /\ bt_pc = "shapes"
    /\ bt_index > Len(bt_shapes)
    /\ IF bt_toolpaths = <<>>
       THEN bt_pc' = "raised" /\ bt_error' = NoToolpathsGenerated
       ELSE bt_pc' = "returned" /\ bt_error' = bt_error
    /\ UNCHANGED <<bt_source, bt_raw, bt_config, bt_shapes, bt_settings, bt_index, bt_results,
                   bt_toolpaths, pl_vars, cp_vars, gw_vars, in_vars, uc_vars, mg_vars, il_vars, gl_vars, gu_vars>>

NextBuild == BuildConfig \/ GenerateCall \/ BuildHeader \/ BuildShape \/ GenerateReturn

SpecBuild == InitBuild /\ [][NextBuild]_vars

\* the configuration comes from load_config or from the settings tab
FromProgram == bt_source \in {"load_config", "gui"}

\* C2, as stated: every configuration produced by load_config or assembled
\* by the settings tab of the GUI has the perimeter fields count and
\* min_fill_mode that _build_toolpaths reads, and generating toolpaths for
\* a non-empty shape list never fails because a field is missing.
C2_AsStated ==
    FromProgram /\ bt_pc # "start" =>
        /\ HasAttr(bt_config.perimeter, "count")
        /\ HasAttr(bt_config.perimeter, "min_fill_mode")
        /\ bt_shapes # <<>> =>
               bt_error \notin {Some("AttributeError: count"),
                                Some("AttributeError: min_fill_mode")}

\* the perimeter thickness and count the user asked for
RequestedThickness == DictGet(bt_raw, "thickness_mm", DefaultThickness)

RequestedCount == DictGet(bt_raw, "count", 1)

FilledShape(shape) == shape.stroke_width = None /\ ~is_empty(shape.geometry)

\* the polygons of polygon eroded by thickness * (count - 1)
ErodedInterior(polygon, thickness, count) ==
    _geometry_to_polygons(_clean_geometry(buffer(polygon, -(thickness * (count - 1)))))

\* what the claim expects of one filled shape: a perimeter call of target
\* width thickness * count for each polygon, and the eroded polygons as infill
\* regions
ExpectedCalls(shape, result, thickness, count) ==
    WithValue(_geometry_to_polygons(shape.geometry), LAMBDA polygons :
        /\ result.perimeter_calls =
               [j \in 1..Len(polygons) |->
                   [polygon |-> _clean_geometry(polygons[j]), step |-> thickness,
                    target_width |-> thickness * count]]
        /\ result.infill_calls =
               Flatten([j \in 1..Len(polygons) |->
                           ErodedInterior(_clean_geometry(polygons[j]), thickness, count)]))

IsSquareScenario(shape) ==
    /\ RequestedThickness = 40 /\ RequestedCount = 2
    /\ shape = ShapeGeometry(Square10mm, 500, None, None)

OutlineCount(result) ==
    Cardinality({j \in 1..Len(result.toolpaths) : result.toolpaths[j].tag = "outline"})

OutlinesClosed(result) ==
    \A j \in 1..Len(result.toolpaths) :
        result.toolpaths[j].tag = "outline" => IsClosedLoop(result.toolpaths[j].points)

\* two closed outline loops and one interior square of side 9.2 mm
SquareScenarioResult(result) ==
    /\ OutlineCount(result) = 2
    /\ OutlinesClosed(result)
    /\ Len(result.infill_calls) = 1
    /\ result.infill_calls[1] = buffer(Square10mm, -40)
    /\ bounds(result.infill_calls[1]) = <<40, 40, 960, 960>>

\* C5, as stated: once toolpath generation is over for a perimeter
\* thickness t > 0 and a perimeter count n >= 1, every filled shape has had
\* its outline loops generated with target width t * n and exactly the
\* polygon eroded by t * (n - 1) handed to infill; with t = 0.4 mm and n = 2
\* the 10 mm square has 2 closed outline loops and one interior square of
\* side 9.2 mm.
C5_AsStated ==
    bt_pc \in {"returned", "raised"} /\ RequestedThickness > 0 /\ RequestedCount >= 1 =>
        \A k \in 1..Len(bt_shapes) :
            FilledShape(bt_shapes[k]) =>
                /\ Len(bt_results) >= k
                /\ ExpectedCalls(bt_shapes[k], bt_results[k], RequestedThickness,
                                 RequestedCount)
                /\ IsSquareScenario(bt_shapes[k]) => SquareScenarioResult(bt_results[k])

\* the toolpaths the shapes handled so far have yielded
YieldedToolpaths == Flatten([k \in 1..Len(bt_results) |-> bt_results[k].toolpaths])

\* C11, as stated: generate_toolpaths_for_shapes ends in one of three ways:
\* with the "no drawable shapes" error when the shape list is empty, with
\* the "no toolpaths generated" error when the shapes yield no toolpath, and
\* in every other case by returning a non-empty toolpath list.
C11_AsStated ==
    /\ bt_pc = "raised" =>
           \/ bt_error = NoDrawableShapes /\ bt_shapes = <<>>
           \/ bt_error = NoToolpathsGenerated /\ bt_shapes # <<>> /\ YieldedToolpaths = <<>>
    /\ bt_pc = "returned" =>
           /\ bt_error = None
           /\ bt_shapes # <<>>
           /\ bt_toolpaths # <<>>
           /\ bt_toolpaths = YieldedToolpaths

HasTag(result, tag) == \E j \in 1..Len(result.toolpaths) : result.toolpaths[j].tag = tag

OnlyTag(result, tag) == \A j \in 1..Len(result.toolpaths) : result.toolpaths[j].tag = tag

\* the single perimeter call of a stroked shape: its geometry, the perimeter
\* thickness as step, its stroke width as target
StrokeCall(shape) ==
    [polygon |-> shape.geometry, step |-> bt_config.perimeter.thickness,
     target_width |-> shape.stroke_width[1]]

\* C12: a shape with a stroke width is outline-only.  For every shape that
\* _build_toolpaths has handled: if its stroke_width is set, all its
\* toolpaths are tagged "outline", the loop generator was called once with
\* step = perimeter thickness and target width = stroke_width, and infill
\* was not called for it; and a shape that has a toolpath tagged "infill"
\* has no stroke width.
C12_StrokeOutlineOnly ==
    \A k \in 1..Len(bt_results) :
        /\ bt_shapes[k].stroke_width # None =>
               /\ OnlyTag(bt_results[k], "outline")
               /\ bt_results[k].perimeter_calls = <<StrokeCall(bt_shapes[k])>>
               /\ bt_results[k].infill_calls = <<>>
        /\ HasTag(bt_results[k], "infill") => bt_shapes[k].stroke_width = None

\* a run has returned in which a stroked shape got outline toolpaths and a
\* filled shape got infill toolpaths
C12_Witness ==
    /\ bt_pc = "returned"
    /\ \E k \in 1..Len(bt_results) :
           bt_shapes[k].stroke_width # None /\ HasTag(bt_results[k], "outline")
    /\ \E k \in 1..Len(bt_results) :
           bt_shapes[k].stroke_width = None /\ HasTag(bt_results[k], "infill")


-----------------------------------------------------------------------------
(* Helper functions called on their own *)

\* a 3 x 3 mm square, a 4 x 1 mm strip, a 3 x 3 mm frame 1 mm wide, an L,
\* a 3 x 3 mm square with a 1 x 1 mm tab on a 1 mm neck, two squares that a
\* repair has separated, an invalid square, and nothing
RegionPolygons ==
    {MkGeom(100, RectCells(0, 0, 3, 3)),
     MkGeom(100, RectCells(0, 0, 4, 1)),
     MkGeom(100, RectCells(0, 0, 3, 3) \ {<<1, 1>>}),
     MkGeom(100, {<<0, 0>>, <<1, 0>>, <<0, 1>>}),
     MkGeom(100, RectCells(0, 0, 3, 3) \cup {<<3, 1>>, <<4, 1>>}),
     MkGeom(100, RectCells(0, 0, 2, 2) \cup RectCells(3, 0, 1, 1)),
     [MkGeom(100, RectCells(0, 0, 2, 2)) EXCEPT !.valid = FALSE],
     EmptyGeometry}

\* min_fill_width: negative, zero, 0.8 mm, 2 mm, 3.2 mm, 5 mm
RegionWidths == {-40, 0, 80, 200, 320, 500}

RegionModes == {"min", "max"}

\* three geometries the library reports as invalid: a frame, a strip and two
\* squares that meet at a corner
InvalidPolygons ==
    {[MkGeom(100, RectCells(0, 0, 3, 3) \ {<<1, 1>>}) EXCEPT !.valid = FALSE],
     [MkGeom(100, RectCells(0, 0, 4, 1)) EXCEPT !.valid = FALSE],
     [MkGeom(50, {<<0, 0>>, <<1, 1>>}) EXCEPT !.valid = FALSE]}

SelectArgs ==
    [polygon : RegionPolygons, min_fill_width : RegionWidths, min_fill_mode : RegionModes]

\* a geometry and what the library does with it
CleanArgs == [geometry : RegionPolygons \cup InvalidPolygons, lib : LibOutcomes]

MaxPolylines == 3

\* polylines of no, one, two and three points
WrapPolylines ==
    {<<>>, <<<<0, 0>>>>, <<<<0, 0>>, <<100, 0>>>>, <<<<100, 0>>, <<100, 100>>, <<0, 0>>>>}

\* the optional arguments absent or present; brightness as None or Some(b)
WrapArgs ==
    [polylines : SeqsUpTo(WrapPolylines, MaxPolylines), tag : {"infill", "outline"},
     source_color : {None, <<255, 0, 0>>}, brightness : {None, Some(500)}]

InitUtil ==
    /\ PerimIdle /\ ColorIdle /\ WriteIdle /\ InfillIdle /\ BuildIdle /\ MergeIdle /\ InterleaveIdle /\ GlueIdle /\ GuiIdle
    /\ uc_pc = "call"
    /\ \/ uc_op = "_select_infill_regions" /\ uc_args \in SelectArgs
       \/ uc_op = "_clean_geometry" /\ uc_args \in CleanArgs
       \/ uc_op = "toolpaths_from_polylines" /\ uc_args \in WrapArgs
    /\ uc_result = <<>>

\* cli.py 132-154
SelectInfillRegions ==
    /\ uc_pc = "call" /\ uc_op = "_select_infill_regions"
    /\ uc_result' = _select_infill_regions(uc_args.polygon, uc_args.min_fill_width,
                                           uc_args.min_fill_mode)
    /\ uc_pc' = "done"
    /\ UNCHANGED <<uc_op, uc_args, pl_vars, cp_vars, gw_vars, in_vars, bt_vars, mg_vars, il_vars, gl_vars, gu_vars>>

\* cli.py 41-57, with the behaviour of make_valid and buffer(0) drawn from
\* LibOutcomes
CleanGeometry ==
    /\ uc_pc = "call" /\ uc_op = "_clean_geometry"
    /\ uc_result' = _clean_geometry_lib(uc_args.geometry, uc_args.lib)
    /\ uc_pc' = "done"
    /\ UNCHANGED <<uc_op, uc_args, pl_vars, cp_vars, gw_vars, in_vars, bt_vars, mg_vars, il_vars, gl_vars, gu_vars>>

\* gcode.py 137-147
ToolpathsFromPolylines ==
    /\ uc_pc = "call" /\ uc_op = "toolpaths_from_polylines"
    /\ uc_result' = toolpaths_from_polylines(uc_args.polylines, uc_args.tag,
                                             uc_args.source_color, uc_args.brightness)
    /\ uc_pc' = "done"
    /\ UNCHANGED <<uc_op, uc_args, pl_vars, cp_vars, gw_vars, in_vars, bt_vars, mg_vars, il_vars, gl_vars, gu_vars>>

NextUtil ==
    \/ SelectInfillRegions
    \/ CleanGeometry
    \/ ToolpathsFromPolylines

SpecUtil == InitUtil /\ [][NextUtil]_vars

Selected == uc_pc = "done" /\ uc_op = "_select_infill_regions"

\* C13: _select_infill_regions with min_fill_width <= 0 returns exactly the
\* polygons of the repaired polygon, _geometry_to_polygons(_clean_geometry(
\* polygon)), in either mode: nothing dropped, split or altered.
C13_ZeroWidthDecomposes ==
    Selected /\ uc_args.min_fill_width <= 0 =>
        uc_result = _geometry_to_polygons(_clean_geometry(uc_args.polygon))

\* a zero width in "max" mode on the polygon that decomposes into two parts
C13_Witness ==
    /\ Selected /\ uc_args.min_fill_width = 0 /\ uc_args.min_fill_mode = "max"
    /\ Len(uc_result) = 2

\* the longer side of the bounding rectangle of a polygon
LongestSide(polygon) ==
    IF is_empty(polygon) THEN 0
    ELSE Max(bounds(polygon)[3] - bounds(polygon)[1], bounds(polygon)[4] - bounds(polygon)[2])

\* C14: in "max" mode with min_fill_width w > 0, _select_infill_regions
\* returns the one-element list of the whole (repaired) polygon when the
\* longest edge of its minimum rotated rectangle is at least w and the empty
\* list otherwise; never a part of the polygon or several parts.
C14_MaxModeAllOrNothing ==
    Selected /\ uc_args.min_fill_width > 0 /\ uc_args.min_fill_mode = "max" =>
        IF ~is_empty(uc_args.polygon) /\ LongestSide(uc_args.polygon) >= uc_args.min_fill_width
        THEN uc_result = <<_clean_geometry(uc_args.polygon)>>
        ELSE uc_result = <<>>

\* the 4 x 1 mm strip passes a width of 3.2 mm by its longer side
C14_Witness ==
    /\ Selected /\ uc_args.min_fill_mode = "max" /\ uc_args.min_fill_width = 320
    /\ uc_args.polygon = MkGeom(100, RectCells(0, 0, 4, 1))
    /\ uc_result = <<uc_args.polygon>>

Cleaned == uc_pc = "done" /\ uc_op = "_clean_geometry"

\* the geometry with the same cells, repaired
Repaired(geometry) == [geometry EXCEPT !.valid = TRUE]

SameExtent(a, b) ==
    /\ is_empty(a) = is_empty(b)
    /\ area(a) = area(b)
    /\ ~is_empty(a) => bounds(a) = bounds(b)

\* C16: _clean_geometry never raises.  An empty or valid geometry comes back
\* unchanged, with the same bounds and area.  An invalid one comes back as
\* the result of make_valid when that is valid; otherwise as the result of
\* the zero-width buffer; and as the original, unmodified and still invalid,
\* when the zero-width buffer fails.
C16_CleanFallbackChain ==
    Cleaned =>
        /\ uc_result # Raised
        /\ is_empty(uc_args.geometry) \/ uc_args.geometry.valid =>
               uc_result = uc_args.geometry /\ SameExtent(uc_result, uc_args.geometry)
        /\ ~is_empty(uc_args.geometry) /\ ~uc_args.geometry.valid =>
               /\ uc_args.lib.mv = "ok" => uc_result = Repaired(uc_args.geometry)
               /\ uc_args.lib.mv # "ok" /\ uc_args.lib.bz = "ok" =>
                      uc_result = Repaired(uc_args.geometry)
               /\ uc_args.lib.mv # "ok" /\ uc_args.lib.bz = "raises" =>
                      uc_result = uc_args.geometry

\* make_valid raised, the zero-width buffer raised too, and the invalid
\* geometry came back as it was
C16_Witness ==
    /\ Cleaned
    /\ ~is_empty(uc_args.geometry) /\ ~uc_args.geometry.valid
    /\ uc_args.lib = [mv |-> "raises", bz |-> "raises"]
    /\ uc_result = uc_args.geometry

Wrapped == uc_pc = "done" /\ uc_op = "toolpaths_from_polylines"

\* the positions, in input order, of the polylines with at least two points
KeptPositions(polylines) ==
    AscendingSeq({i \in 1..Len(polylines) : Len(polylines[i]) >= 2})

\* C17: toolpaths_from_polylines returns, in input order, one Toolpath per
\* input polyline of at least two points, with that polyline as points, the
\* given tag, source colour and brightness and no assigned colour; polylines
\* of no or one point are dropped.
C17_WrapsLongPolylines ==
    Wrapped =>
        /\ Len(uc_result) = Len(KeptPositions(uc_args.polylines))
        /\ \A j \in 1..Len(uc_result) :
               uc_result[j] =
                   [points |-> uc_args.polylines[KeptPositions(uc_args.polylines)[j]],
                    tag |-> uc_args.tag,
                    source_color |-> uc_args.source_color,
                    assigned_color |-> None,
                    brightness |-> uc_args.brightness]

\* three polylines, the middle one of a single point: two toolpaths come back,
\* the first and the third
C17_Witness ==
    /\ Wrapped
    /\ Len(uc_args.polylines) = 3 /\ Len(uc_args.polylines[2]) = 1
    /\ Len(uc_result) = 2
    /\ uc_result[1].points = uc_args.polylines[1]
    /\ uc_result[2].points = uc_args.polylines[3]
    /\ uc_args.polylines[1] # uc_args.polylines[3]


-----------------------------------------------------------------------------
(* _merge_boustrophedon step by step, on the lines that                     *)
(* generate_rectilinear_infill hands to it                                  *)

\* a 0.9 mm block on a 0.1 mm grid: whole, with a slot 0.1 mm wide, with two
\* slots a 0.1 mm wall apart, with a slot 0.1 mm from its left side, with a
\* 0.1 mm notch cut from the top, with a slot 0.2 mm wide; blocks on two and
\* on three legs 0.1 mm and 0.05 mm apart; blocks with two slots 0.05 mm wide
\* that a scan line crosses, inside and at the left side; a 3 mm frame
Block == RectCells(0, 0, 9, 9)

MergePolygons ==
    {MkGeom(10, Block),
     MkGeom(10, Block \ {<<3, 3>>, <<3, 4>>}),
     MkGeom(10, Block \ {<<3, 3>>, <<3, 4>>, <<5, 3>>, <<5, 4>>}),
     MkGeom(10, Block \ {<<1, 3>>, <<1, 4>>}),
     MkGeom(10, Block \ {<<4, 4>>, <<4, 5>>, <<4, 6>>, <<4, 7>>, <<4, 8>>}),
     MkGeom(10, Block \ RectCells(3, 3, 2, 2)),
     MkGeom(10, {<<0, 0>>, <<2, 0>>} \cup RectCells(0, 1, 3, 9)),
     MkGeom(10, {<<0, 0>>, <<2, 0>>, <<4, 0>>} \cup RectCells(0, 1, 5, 9)),
     MkGeom(5, {<<0, 0>>, <<2, 0>>, <<4, 0>>} \cup RectCells(0, 1, 5, 8)),
     MkGeom(5, RectCells(0, 0, 9, 12) \ {<<3, 7>>, <<3, 8>>, <<5, 7>>, <<5, 8>>}),
     MkGeom(5, RectCells(0, 0, 9, 12) \ {<<0, 7>>, <<0, 8>>, <<2, 7>>, <<2, 8>>}),
     MkGeom(100, RectCells(0, 0, 3, 3) \ {<<1, 1>>})}

\* base_spacing and spacing = base_spacing / density: 0.4 mm at densities 1
\* and 0.5, 1 mm at density 1
MergeSpacings == {<<40, 40>>, <<40, 80>>, <<100, 100>>}

\* one pass of the loop over the angles: the polygon, the spacings, the
\* angle and its 0-based index in the angle list
MergeScenarios ==
    [polygon : MergePolygons, spacings : MergeSpacings, angle : {0, 90}, index : {0, 1}]

InitMerge ==
    /\ PerimIdle /\ ColorIdle /\ WriteIdle /\ InfillIdle /\ BuildIdle /\ UtilIdle
    /\ InterleaveIdle /\ GlueIdle /\ GuiIdle
    /\ mg_pc = "call"
    /\ \E sc \in MergeScenarios :
          /\ mg_lines = alternating(pass_toolpaths(sc.polygon, sc.angle, sc.spacings[2]),
                                    sc.index)
          /\ mg_max_gap4 = merge_tolerance4([base_spacing |-> sc.spacings[1]], sc.spacings[2])
          /\ mg_loops = _build_perimeter_loops(sc.polygon)
    /\ mg_st = <<>> /\ mg_result = <<>>

\* lines 147-153
MergeCall ==
    /\ mg_pc = "call"
    /\ IF merge_pending(mg_lines) = <<>>
       THEN mg_pc' = "done" /\ mg_result' = <<>> /\ mg_st' = mg_st
       ELSE /\ mg_pc' = "loop"
            /\ mg_st' = [pending |-> merge_pending(mg_lines), current |-> <<>>,
                         merged |-> <<>>]
            /\ mg_result' = mg_result
    /\ UNCHANGED <<mg_lines, mg_max_gap4, mg_loops,
                   pl_vars, cp_vars, gw_vars, in_vars, bt_vars, uc_vars, il_vars, gl_vars, gu_vars>>

\* lines 155-195: one iteration of the while loop
MergeIterate ==
    /\ mg_pc = "loop"
    /\ mg_st.pending # <<>>
    /\ mg_st' = merge_step(mg_st, mg_max_gap4, mg_loops)
    /\ UNCHANGED <<mg_pc, mg_lines, mg_max_gap4, mg_loops, mg_result,
                   pl_vars, cp_vars, gw_vars, in_vars, bt_vars, uc_vars, il_vars, gl_vars, gu_vars>>

\* lines 197-200
MergeReturn ==
    /\ mg_pc = "loop"
    /\ mg_st.pending = <<>>
    /\ mg_result' = IF mg_st.current # <<>> THEN Append(mg_st.merged, mg_st.current)
                    ELSE mg_st.merged
    /\ mg_pc' = "done"
    /\ UNCHANGED <<mg_lines, mg_max_gap4, mg_loops, mg_st,
                   pl_vars, cp_vars, gw_vars, in_vars, bt_vars, uc_vars, il_vars, gl_vars, gu_vars>>

NextMerge == MergeCall \/ MergeIterate \/ MergeReturn

SpecMerge == InitMerge /\ [][NextMerge]_vars

\* an iteration of the while loop with a run under way
Iterating == mg_pc = "loop" /\ mg_st.pending # <<>> /\ mg_st.current # <<>>

LastPoint == mg_st.current[Len(mg_st.current)]

StartDist2(k) == Dist2(LastPoint, mg_st.pending[k][1])

\* the least squared distance from the end of the run to a pending start
NearestDist2 ==
    CHOOSE d \in {StartDist2(k) : k \in 1..Len(mg_st.pending)} :
        \A k \in 1..Len(mg_st.pending) : d <= StartDist2(k)

\* the step has extended the current run
RunContinued ==
    /\ mg_st'.merged = mg_st.merged
    /\ Len(mg_st'.current) > Len(mg_st.current)
    /\ SubSeq(mg_st'.current, 1, Len(mg_st.current)) = mg_st.current

\* the step has closed the current run and begun another
RunTerminated == mg_st'.merged = Append(mg_st.merged, mg_st.current)

TiedIndices(st) ==
    LET last_point == st.current[Len(st.current)]
        d(k) == Dist2(last_point, st.pending[k][1])
    IN {k \in 1..Len(st.pending) : \A m \in 1..Len(st.pending) : d(k) <= d(m)}

NearestIndices == TiedIndices(mg_st)

\* the step has taken the segment at index k from the pending list and put
\* it at the end of the run under way or of a new run
Removed(k) ==
    /\ mg_st'.pending = RemoveAt(mg_st.pending, k)
    /\ LET line == mg_st.pending[k]
           run == mg_st'.current
       IN /\ Len(run) >= Len(line)
          /\ SubSeq(run, Len(run) - Len(line) + 2, Len(run)) = Tail(line)

\* the first iteration: the run starts with pending[0]
FirstIteration == mg_pc = "loop" /\ mg_st.pending # <<>> /\ mg_st.current = <<>>

\* C19: at every step of _merge_boustrophedon after the first the segment
\* removed from the pending list is one whose start is at minimum distance
\* from the last point of the current run, the one of lowest index among
\* those at that distance; the very first run starts with pending[0].
C19_NearestLowestIndex ==
    [][/\ Iterating /\ mg_st' # mg_st =>
              \E k \in NearestIndices :
                  /\ \A m \in NearestIndices : k <= m
                  /\ Removed(k)
       /\ FirstIteration /\ mg_st' # mg_st =>
              /\ mg_st'.current = mg_st.pending[1]
              /\ mg_st'.pending = Tail(mg_st.pending)
              /\ mg_st'.merged = <<>>]_vars

\* the loop state after n iterations
RECURSIVE MergeAfter(_)
MergeAfter(n) ==
    IF n = 0 THEN [pending |-> merge_pending(mg_lines), current |-> <<>>, merged |-> <<>>]
    ELSE WithValue(MergeAfter(n - 1), LAMBDA st : merge_step(st, mg_max_gap4, mg_loops))

LowestOf(S) == CHOOSE k \in S : \A m \in S : k <= m

\* an iteration has just chosen between two or more pending segments whose
\* starts were equally near the end of the run, and has taken the one of
\* lowest index, which was not the only one left before the others
C19_Witness ==
    /\ mg_pc = "loop"
    /\ \E n \in 1..(Len(mg_lines) - 1) :
           WithValue(MergeAfter(n), LAMBDA prev :
               /\ prev.pending # <<>>
               /\ Cardinality(TiedIndices(prev)) >= 2
               /\ mg_st = merge_step(prev, mg_max_gap4, mg_loops)
               /\ mg_st.pending = RemoveAt(prev.pending, LowestOf(TiedIndices(prev))))

-----------------------------------------------------------------------------
(* _interleave_orientations called on its own (infill.py 338-393)           *)

\* runs per angle
MaxRuns == 2

\* runs to draw from: one that ends at the origin; two that start 100 mm
\* away, the second 0.5e-6 mm nearer than the first; two whose nearer ends
\* are 0.4 mm from the origin, one by its end and one by its start; a single
\* point, which is no run
InterleavePool ==
    {<<<<50, 0>>, <<0, 0>>>>,
     <<<<10000, 1>>, <<10000, 50>>>>,
     <<<<10000, 0>>, <<10050, 0>>>>,
     <<<<60, 40>>, <<30, 40>>, <<0, 40>>>>,
     <<<<40, 0>>, <<40, 60>>>>,
     <<<<5, 5>>>>}

RunLists == UNION {[1..n -> InterleavePool] : n \in 0..MaxRuns}

InitInterleave ==
    /\ PerimIdle /\ ColorIdle /\ WriteIdle /\ InfillIdle /\ BuildIdle /\ UtilIdle /\ MergeIdle /\ GlueIdle /\ GuiIdle
    /\ il_pc = "call"
    /\ il_angle_polylines \in [1..2 -> RunLists]
    /\ il_candidates = <<>>
    /\ il_point = None
    /\ il_chosen = None
    /\ il_result = <<>>

\* lines 339-349
InterleaveCall ==
    /\ il_pc = "call"
    /\ \E candidates \in {interleave_candidates(il_angle_polylines)} :
           /\ il_candidates' = candidates
           /\ il_pc' = IF candidates = <<>> THEN "done" ELSE "loop"
    /\ UNCHANGED <<il_angle_polylines, il_point, il_chosen, il_result,
                   pl_vars, cp_vars, gw_vars, in_vars, bt_vars, uc_vars, mg_vars, gl_vars, gu_vars>>

\* one iteration of the while loop (lines 351-391)
InterleaveIterate ==
    /\ il_pc = "loop"
    /\ il_candidates # <<>>
    /\ \E choice \in {interleave_choice(il_candidates, il_point)} :
       \E polyline \in {IF choice[2] THEN Reverse(il_candidates[choice[1]][2])
                        ELSE il_candidates[choice[1]][2]} :
           /\ il_chosen' = choice
           /\ il_candidates' = RemoveAt(il_candidates, choice[1])
           /\ il_result' = Append(il_result, polyline)
           /\ il_point' = polyline[Len(polyline)]
    /\ UNCHANGED <<il_pc, il_angle_polylines,
                   pl_vars, cp_vars, gw_vars, in_vars, bt_vars, uc_vars, mg_vars, gl_vars, gu_vars>>

\* line 393
InterleaveReturn ==
    /\ il_pc = "loop"
    /\ il_candidates = <<>>
    /\ il_pc' = "done"
    /\ UNCHANGED <<il_angle_polylines, il_candidates, il_point, il_chosen, il_result,
                   pl_vars, cp_vars, gw_vars, in_vars, bt_vars, uc_vars, mg_vars, gl_vars, gu_vars>>

NextInterleave == InterleaveCall \/ InterleaveIterate \/ InterleaveReturn

SpecInterleave == InitInterleave /\ [][NextInterleave]_vars

\* an iteration of the while loop is taking a run
Choosing == il_pc = "loop" /\ il_candidates # <<>> /\ il_candidates' # il_candidates

\* squared distances from the pen to the start, the end and the nearer end
\* of candidate k
PenToStart(k) == Dist2(il_point, il_candidates[k][2][1])

PenToEnd(k) == Dist2(il_point, il_candidates[k][2][Len(il_candidates[k][2])])

PenToNearer(k) == Min(PenToStart(k), PenToEnd(k))

\* the run of the choice <<k, rev>> has left the candidates and has been
\* emitted, reversed if rev
Emitted(k, rev) ==
    /\ il_candidates' = RemoveAt(il_candidates, k)
    /\ il_result' = Append(il_result, IF rev THEN Reverse(il_candidates[k][2])
                                      ELSE il_candidates[k][2])

\* the first choice: the first run of the lowest angle index that has runs,
\* unreversed
FirstChoice(k, rev) ==
    /\ ~rev
    /\ \A m \in 1..Len(il_candidates) : il_candidates[k][1] <= il_candidates[m][1]
    /\ il_candidates[k][2] =
           SelectSeq(il_angle_polylines[il_candidates[k][1] + 1], AtLeastTwoPoints)[1]

\* C20 as stated: _interleave_orientations starts with the first run of the
\* lowest angle index that has runs, unreversed; thereafter each chosen run
\* is, among all remaining runs of all angles, the one whose nearer endpoint
\* is closest to the last emitted point (ties: lowest candidate index), and
\* it is emitted reversed exactly when its end is strictly closer to the pen
\* than its start.
C20_AsStated ==
    [][Choosing =>
           \E k \in 1..Len(il_candidates) : \E rev \in BOOLEAN :
               /\ Emitted(k, rev)
               /\ IF il_point = None THEN FirstChoice(k, rev)
                  ELSE /\ \A m \in 1..Len(il_candidates) : PenToNearer(k) <= PenToNearer(m)
                       /\ \A m \in 1..(k - 1) : PenToNearer(m) > PenToNearer(k)
                       /\ rev <=> PenToEnd(k) < PenToStart(k)]_vars

\* C20: as above, but the chosen run is closest up to the margin of 1e-6 mm:
\* no remaining run is nearer by more than the margin, and every run of
\* lower candidate index is strictly farther.
C20_ClosestWithinMargin ==
    [][Choosing =>
           /\ Emitted(il_chosen'[1], il_chosen'[2])
           /\ LET k == il_chosen'[1]
                  rev == il_chosen'[2]
              IN IF il_point = None THEN FirstChoice(k, rev)
                 ELSE /\ \A m \in 1..Len(il_candidates) :
                             ~CloserByMargin(PenToNearer(m), PenToNearer(k))
                      /\ \A m \in 1..(k - 1) : PenToNearer(m) > PenToNearer(k)
                      /\ rev <=> PenToEnd(k) < PenToStart(k)]_vars

\* the last choice was made with the pen at the origin, took the run that
\* starts at (100, 0.01), unreversed, and left behind the run that starts at
\* (100, 0), which was nearer by less than the margin
C20_Witness ==
    /\ il_pc = "loop"
    /\ Len(il_result) >= 2
    /\ il_result[Len(il_result) - 1][Len(il_result[Len(il_result) - 1])] = <<0, 0>>
    /\ il_result[Len(il_result)] = <<<<10000, 1>>, <<10000, 50>>>>
    /\ il_chosen[2] = FALSE
    /\ \E m \in 1..Len(il_candidates) : il_candidates[m][2] = <<<<10000, 0>>, <<10050, 0>>>>

-----------------------------------------------------------------------------
(* _glue_polylines (infill.py 203-251), as generate_rectilinear_infill      *)
(* calls it (lines 329-335) and on runs that end on the two sides of a wall *)

GlueAngles == {<<0>>, <<0, 90>>, <<90, 0>>}

GlueScenarios == [polygon : MergePolygons, spacings : MergeSpacings, angles : GlueAngles]

\* merged_paths (line 329) of a scenario
merged_paths(sc) ==
    WithValue(_build_perimeter_loops(sc.polygon), LAMBDA perimeter_loops :
    WithValue([base_spacing |-> sc.spacings[1], angles |-> sc.angles], LAMBDA infill :
        _interleave_orientations(
            [i \in 1..Len(sc.angles) |->
                angle_pass(sc.polygon, infill, sc.spacings[2],
                           merge_tolerance4(infill, sc.spacings[2]), perimeter_loops, i).merged])))

\* a block of 0.45 x 0.3 mm with a hole of 0.15 x 0.1 mm that leaves a wall
\* 0.05 mm thick below it
ThinWall == MkGeom(5, RectCells(0, 0, 9, 6) \ RectCells(3, 1, 3, 2))

\* runs of two passes over ThinWall that meet at the wall: the segment that
\* the scan line x = 0.2 of the 90 degree pass cuts from the wall, drawn
\* downwards from the hole at (0.2, 0.05) to the outside at (0.2, 0), and the
\* segment that a scan line of a 45 degree pass cuts from it between
\* (0.15, 0) and (0.2, 0.05), in either direction
WallRuns ==
    {<<<<<<20, 5>>, <<20, 0>>>>, <<<<20, 5>>, <<15, 0>>>>>>,
     <<<<<<20, 5>>, <<20, 0>>>>, <<<<15, 0>>, <<20, 5>>>>>>}

InitGlue ==
    /\ PerimIdle /\ ColorIdle /\ WriteIdle /\ InfillIdle /\ BuildIdle /\ UtilIdle /\ MergeIdle
    /\ InterleaveIdle /\ GuiIdle
    /\ gl_pc = "call"
    /\ \/ \E sc \in GlueScenarios :
              /\ gl_polylines = merged_paths(sc)
              /\ gl_tolerance4 = merge_tolerance4([base_spacing |-> sc.spacings[1]],
                                                  sc.spacings[2])
              /\ gl_loops = _build_perimeter_loops(sc.polygon)
       \/ /\ gl_polylines \in WallRuns
          /\ gl_tolerance4 = merge_tolerance4([base_spacing |-> 40], 40)
          /\ gl_loops = _build_perimeter_loops(ThinWall)
    /\ gl_index = 0
    /\ gl_st = <<>>
    /\ gl_result = <<>>

\* lines 209-213
GlueCall ==
    /\ gl_pc = "call"
    /\ IF gl_polylines = <<>>
       THEN gl_pc' = "done" /\ UNCHANGED <<gl_st, gl_index>>
       ELSE /\ gl_pc' = "loop"
            /\ gl_st' = [current |-> gl_polylines[1], glued |-> <<>>]
            /\ gl_index' = 2
    /\ UNCHANGED <<gl_polylines, gl_tolerance4, gl_loops, gl_result,
                   pl_vars, cp_vars, gw_vars, in_vars, bt_vars, uc_vars, mg_vars, il_vars, gu_vars>>

\* one iteration of the for loop (lines 215-248)
GlueIterate ==
    /\ gl_pc = "loop"
    /\ gl_index <= Len(gl_polylines)
    /\ gl_st' = glue_step(gl_st, gl_polylines[gl_index], gl_tolerance4, gl_loops)
    /\ gl_index' = gl_index + 1
    /\ UNCHANGED <<gl_pc, gl_polylines, gl_tolerance4, gl_loops, gl_result,
                   pl_vars, cp_vars, gw_vars, in_vars, bt_vars, uc_vars, mg_vars, il_vars, gu_vars>>

\* lines 250-251
GlueReturn ==
    /\ gl_pc = "loop"
    /\ gl_index > Len(gl_polylines)
    /\ gl_result' = Append(gl_st.glued, gl_st.current)
    /\ gl_pc' = "done"
    /\ UNCHANGED <<gl_polylines, gl_tolerance4, gl_loops, gl_index, gl_st,
                   pl_vars, cp_vars, gw_vars, in_vars, bt_vars, uc_vars, mg_vars, il_vars, gu_vars>>

NextGlue == GlueCall \/ GlueIterate \/ GlueReturn

SpecGlue == InitGlue /\ [][NextGlue]_vars

\* an iteration of the for loop is under way
Gluing == gl_pc = "loop" /\ gl_index <= Len(gl_polylines) /\ gl_index' = gl_index + 1

\* the run the iteration handles, and the squared distances from the end of
\* the current output run to its two ends
NextRun == gl_polylines[gl_index]

GlueFrom == gl_st.current[Len(gl_st.current)]

ToStart2 == Dist2(GlueFrom, NextRun[1])

ToEnd2 == Dist2(GlueFrom, NextRun[Len(NextRun)])

\* the run as it is taken: reversed when its end is strictly nearer
Candidate == IF ToEnd2 < ToStart2 THEN Reverse(NextRun) ELSE NextRun

\* the run has been joined onto the current output run
Joined ==
    /\ gl_st'.glued = gl_st.glued
    /\ LET run == gl_st'.current
           n == Len(run)
       IN /\ n >= Len(gl_st.current) + Len(Candidate) - 1
          /\ SubSeq(run, 1, Len(gl_st.current)) = gl_st.current
          /\ SubSeq(run, n - Len(Candidate) + 2, n) = Tail(Candidate)

\* the current output run has been closed and the run begins a new one
Closed ==
    /\ gl_st'.glued = Append(gl_st.glued, gl_st.current)
    /\ gl_st'.current = Candidate

\* the walk returns the output runs, no more of them than the input has
Returned ==
    gl_pc = "loop" /\ gl_pc' = "done" =>
        /\ Len(gl_result') <= Len(gl_polylines)
        /\ gl_result' = Append(gl_st.glued, gl_st.current)

Bridgeable ==
    \/ Dist2(GlueFrom, Candidate[1]) = 0
    \/ _perimeter_glide_path(GlueFrom, Candidate[1], gl_loops, gl_tolerance4) # None

-----------------------------------------------------------------------------
(* Order of the toolpaths that _build_toolpaths returns (SpecBuild) *)

\* the toolpath lies within the bounding box of the polygon
WithinBounds(toolpath, polygon) ==
    LET b == bounds(polygon)
    IN \A k \in 1..Len(toolpath.points) :
           /\ b[1] <= toolpath.points[k][1] /\ toolpath.points[k][1] <= b[3]
           /\ b[2] <= toolpath.points[k][2] /\ toolpath.points[k][2] <= b[4]

\* the position, in the decomposition of the shape's geometry, of the
\* polygon that the toolpath was generated for; 0 if there is none
PolygonIndex(shape, toolpath) ==
    LET polygons == _geometry_to_polygons(shape.geometry)
    IN IF \E k \in 1..Len(polygons) : WithinBounds(toolpath, polygons[k])
       THEN CHOOSE k \in 1..Len(polygons) :
                /\ WithinBounds(toolpath, polygons[k])
                /\ \A m \in 1..(k - 1) : ~WithinBounds(toolpath, polygons[m])
       ELSE 0

\* within the toolpaths of a filled shape the polygons follow one another in
\* decomposition order, and the outlines of a polygon precede its infill
PolygonOrder(shape, toolpaths) ==
    \A a, b \in 1..Len(toolpaths) :
        a < b =>
            /\ PolygonIndex(shape, toolpaths[a]) >= 1
            /\ PolygonIndex(shape, toolpaths[a]) <= PolygonIndex(shape, toolpaths[b])
            /\ PolygonIndex(shape, toolpaths[a]) = PolygonIndex(shape, toolpaths[b])
                   => ~(toolpaths[a].tag = "infill" /\ toolpaths[b].tag = "outline")

\* C24: the toolpath list built by _build_toolpaths preserves enumeration
\* order: the toolpaths of shape i precede those of shape j for i < j; within
\* a shape the polygons are handled in decomposition order, and for each
\* polygon all its outline toolpaths precede its infill toolpaths.
C24_EnumerationOrder ==
    /\ bt_toolpaths = Flatten([i \in 1..Len(bt_results) |-> bt_results[i].toolpaths])
    /\ \A i \in 1..Len(bt_results) :
           /\ \A k \in 1..Len(bt_results[i].toolpaths) :
                  bt_results[i].toolpaths[k].source_color = bt_shapes[i].color
           /\ bt_shapes[i].stroke_width = None
                  => PolygonOrder(bt_shapes[i], bt_results[i].toolpaths)

\* a list has been returned for two shapes, the first of two polygons with
\* outline and infill for each, the second in another colour
C24_Witness ==
    /\ bt_pc = "returned"
    /\ Len(bt_shapes) = 2
    /\ bt_shapes[1].geometry = TwoSquares
    /\ bt_shapes[2].color # bt_shapes[1].color
    /\ bt_results[2].toolpaths # <<>>
    /\ \A p \in {1, 2} : \A tag \in {"outline", "infill"} :
           \E k \in 1..Len(bt_results[1].toolpaths) :
               /\ bt_results[1].toolpaths[k].tag = tag
               /\ PolygonIndex(bt_shapes[1], bt_results[1].toolpaths[k]) = p

-----------------------------------------------------------------------------
(* Passes of the perimeter engine per shape (SpecBuild) *)

\* the number of passes of the for loop of _generate_perimeter_loops (cli.py
\* 171-183) that reach the inward offset, out of the left passes allowed
RECURSIVE PassesRun(_, _, _)
PassesRun(current0, left, step) ==
    IF left = 0 THEN 0
    ELSE WithValue(_clean_geometry(current0), LAMBDA current :
             IF is_empty(current) \/ area(current) <= 0 THEN 0
             ELSE 1 + PassesRun(buffer(current, -step), left - 1, step))

\* the inward-offset passes of one call of the perimeter engine
CallPasses(call) ==
    PassesRun(call.polygon, max_passes(call.step, call.target_width),
              Max(call.step, StepFloor))

\* C25 as stated: for every shape, filled or stroked, the number of
\* inward-offset passes that the perimeter engine runs is bounded by the
\* configured perimeter_count, independent of the shape's own attributes.
C25_AsStated ==
    \A i \in 1..Len(bt_results) :
        \A k \in 1..Len(bt_results[i].perimeter_calls) :
            CallPasses(bt_results[i].perimeter_calls[k]) <= bt_settings[1].perimeter_count

-----------------------------------------------------------------------------
(* the colour groups and the pauses between them, over SpecWrite *)

\* the writer is past the branch of line 465 and took the plan's side
PlanActive == gw_pc \in {"group", "paths", "done"} /\ HasPlan(gw_plan)

\* the toolpath indices of the groups before the current one, then the
\* members of the current group drawn so far
DrawnByPlan ==
    LET groups == gw_plan[1].groups
        whole == Flatten([g \in 1..(gw_group - 1) |-> groups[g][2]])
    IN IF gw_pc = "group" THEN whole
       ELSE whole \o SubSeq(groups[gw_group][2], 1, gw_path - 1)

\* the pause block of the claim
PauseBlock == IF gw_printer.pause_gcode = <<>> THEN <<"M600">> ELSE gw_printer.pause_gcode

\* the positions of the pause lines in the file, ascending
PauseLines == AscendingSeq(LinesWhere(LAMBDA line : line.by = "pause"))

\* C26: with an active plan of k groups the groups are drawn in plan order,
\* each one whole before the next begins, and the pause block (pause_gcode,
\* or M600 when that is empty) has been emitted once for every group left
\* behind and for no other: none before the first group, none after the
\* last, k - 1 in the finished file; every block is contiguous and follows
\* the filament-change comment.
C26_GroupsThenPauses ==
    PlanActive =>
        LET groups == gw_plan[1].groups
            n == Len(PauseBlock)
        IN /\ gw_drawn = DrawnByPlan
           /\ gw_group \in 1..Len(groups)
           /\ gw_pc = "done" => Len(gw_drawn) = Len(gw_toolpaths)
           /\ Len(PauseLines) = (gw_group - 1) * n
           /\ gw_pc = "done" => Len(PauseLines) = (Len(groups) - 1) * n
           /\ \A j \in 1..(gw_group - 1) : \A r \in 1..n :
                 /\ gw_gen.gcode[PauseLines[(j - 1) * n + r]].arg = PauseBlock[r]
                 /\ PauseLines[(j - 1) * n + r] = PauseLines[(j - 1) * n + 1] + r - 1
                 /\ gw_gen.gcode[PauseLines[(j - 1) * n + 1] - 1].by = "comment"

\* a finished file of two groups whose first group holds the second toolpath
\* of the list, for a printer without configured pause commands
C26_Witness ==
    /\ PlanActive /\ gw_pc = "done"
    /\ Len(gw_plan[1].groups) = 2
    /\ gw_drawn = <<2, 1>>
    /\ gw_printer.pause_gcode = <<>>
    /\ gw_printer.z_draw # gw_printer.z_travel

-----------------------------------------------------------------------------
(* the groups of the colour plan, over SpecColor *)

RECURSIVE EuclideanLength(_)
\* the summed Euclidean length of the segments of a point list
EuclideanLength(points) ==
    IF Len(points) < 2 THEN 0
    ELSE Hypot(points[2][1] - points[1][1], points[2][2] - points[1][2])
             + EuclideanLength(Tail(points))

\* the places <<g, r>> at which the plan's groups hold toolpath i
PlacesOf(i) ==
    {<<g, r>> \in (1..Len(cp_plan[1].groups)) \X (1..Len(cp_toolpaths)) :
        r <= Len(cp_plan[1].groups[g][2]) /\ cp_plan[1].groups[g][2][r] = i}

\* C27: the groups of the plan partition the toolpaths: each toolpath is held
\* at exactly one place, in the group of its assigned_color; the members of a
\* group follow in their order in the list; usage_by_color of a group's
\* colour is the sum of the Euclidean lengths of its members.
C27_GroupsPartition ==
    cp_pc = "planned" /\ cp_plan # None =>
        LET groups == cp_plan[1].groups
        IN /\ \A i \in 1..Len(cp_toolpaths) :
                 /\ Cardinality(PlacesOf(i)) = 1
                 /\ \A place \in PlacesOf(i) :
                       groups[place[1]][1] = cp_toolpaths[i].assigned_color
           /\ \A g \in 1..Len(groups) :
                 /\ groups[g][2] # <<>>
                 /\ \A r \in 1..Len(groups[g][2]) : groups[g][2][r] \in 1..Len(cp_toolpaths)
                 /\ \A r \in 1..(Len(groups[g][2]) - 1) : groups[g][2][r] < groups[g][2][r + 1]
                 /\ cp_plan[1].usage_by_color[groups[g][1]]
                        = SeqSum([r \in 1..Len(groups[g][2]) |->
                                     EuclideanLength(cp_toolpaths[groups[g][2][r]].points)])
           /\ DOMAIN cp_plan[1].usage_by_color = {groups[g][1] : g \in 1..Len(groups)}

\* a plan with a group of two toolpaths of different lengths, and one with
\* two groups
C27_Witness ==
    /\ cp_pc = "planned" /\ cp_plan # None
    /\ Len(cp_toolpaths) = 2
    /\ \/ /\ Len(cp_plan[1].groups) = 1
          /\ cp_toolpaths[1].points # cp_toolpaths[2].points
          /\ cp_toolpaths[1].source_color # cp_toolpaths[2].source_color
          /\ cp_plan[1].usage_by_color[cp_plan[1].groups[1][1]] = 6
       \/ /\ Len(cp_plan[1].groups) = 2
          /\ cp_plan[1].groups[1][2] = <<2>>

-----------------------------------------------------------------------------
(* what the stitching keeps of the scan segments, over SpecInfill *)

\* the two ends of a segment in a fixed order, so that a segment and its
\* reverse compare equal
Undirected(a, b) ==
    IF a[1] < b[1] \/ (a[1] = b[1] /\ a[2] <= b[2]) THEN <<a, b>> ELSE <<b, a>>

\* the clipped scan segments of all angles (line 309), as undirected pairs
ScanSegments ==
    LET all == Flatten(in_segments)
    IN [k \in 1..Len(all) |-> Undirected(all[k][1], all[k][Len(all[k])])]

\* no returned polyline of the model is longer than this
MaxResultPoints == 64

\* the places <<p, e>> of the returned polylines: edge e of polyline p
ResultEdges ==
    {<<p, e>> \in (1..Len(in_result)) \X (1..MaxResultPoints) : e < Len(in_result[p])}

EdgeAt(place) ==
    Undirected(in_result[place[1]][place[2]], in_result[place[1]][place[2] + 1])

IsScanEdge(place) == \E k \in 1..Len(ScanSegments) : ScanSegments[k] = EdgeAt(place)

\* the places that are the first or the last edge of their polyline
EndEdges == {place \in ResultEdges : place[2] = 1 \/ place[2] = Len(in_result[place[1]]) - 1}

\* both points lie on one side of a perimeter loop
AlongLoops(pair) ==
    \E k \in 1..Len(in_loops) : \E i \in 1..(Len(in_loops[k]) - 1) :
        LET u == in_loops[k][i]
            v == in_loops[k][i + 1]
            On(q) == \/ /\ u[1] = v[1] /\ q[1] = u[1]
                        /\ Min(u[2], v[2]) <= q[2] /\ q[2] <= Max(u[2], v[2])
                     \/ /\ u[2] = v[2] /\ q[2] = u[2]
                        /\ Min(u[1], v[1]) <= q[1] /\ q[1] <= Max(u[1], v[1])
        IN On(pair[1]) /\ On(pair[2])

\* C28: merge, interleave and glue neither lose nor duplicate a scan segment:
\* the scan segments can be matched one to one with edges of the returned
\* polylines, forwards or reversed, so that the first and the last edge of
\* every polyline is matched; the edges left over are bridges, which run
\* along a perimeter loop, and a scan segment off the perimeter is an edge
\* exactly as often as the sweeps produced it.
C28_SegmentsConserved ==
    in_pc = "done" =>
        /\ \A k \in 1..Len(ScanSegments) :
              LET same == Cardinality({j \in 1..Len(ScanSegments) : ScanSegments[j] = ScanSegments[k]})
                  held == Cardinality({place \in ResultEdges : EdgeAt(place) = ScanSegments[k]})
                  ends == Cardinality({place \in EndEdges : EdgeAt(place) = ScanSegments[k]})
              IN /\ held >= same
                 /\ ends <= same
                 /\ ~AlongLoops(ScanSegments[k]) => held = same
        /\ \A place \in ResultEdges : IsScanEdge(place) \/ AlongLoops(EdgeAt(place))
        /\ \A place \in EndEdges : IsScanEdge(place)
        /\ \A p \in 1..Len(in_result) :
              Len(in_result[p]) >= 2 /\ Len(in_result[p]) <= MaxResultPoints
        /\ ScanSegments = <<>> => in_result = <<>>

\* a result for two angles in which a polyline holds a bridge between scan
\* segments and another scan segment runs against its sweep direction
C28_Witness ==
    /\ in_pc = "done" /\ Len(in_segments) = 2 /\ Len(in_result) >= 2
    /\ \E place \in ResultEdges : ~IsScanEdge(place)
    /\ \E place \in ResultEdges :
          \E k \in 1..Len(in_segments[1]) :
              /\ in_result[place[1]][place[2]] = in_segments[1][k][2]
              /\ in_result[place[1]][place[2] + 1] = in_segments[1][k][1]

-----------------------------------------------------------------------------
(* the pen height across draw_single_toolpath calls, over SpecWrite *)

\* z_draw and z_travel are told apart by _set_z (line 53)
HeightsDiffer == gw_printer.z_draw # gw_printer.z_travel

\* a generator exists: the writer is past line 458
Writing == gw_pc \notin {"idle", "start"}

\* the step is a draw_single_toolpath call for a toolpath of fewer than two
\* points
ShortCall ==
    /\ Writing
    /\ Len(gw_drawn') = Len(gw_drawn) + 1
    /\ Len(gw_toolpaths[gw_drawn'[Len(gw_drawn')]].points) < 2

\* C29: for a printer whose z_draw and z_travel differ, across any sequence
\* of draw_single_toolpath calls every G1 XY line was emitted with the
\* tracked Z at z_draw, every G0 XY line with the tracked Z at z_travel, the
\* tracked Z is z_travel after every call, and a call for a toolpath of
\* fewer than two points leaves the generator as it was.
C29_PenHeight ==
    /\ [](Writing /\ HeightsDiffer =>
            /\ gw_gen.z_height = gw_printer.z_travel
            /\ \A k \in 1..Len(gw_gen.gcode) :
                  /\ gw_gen.gcode[k].cmd = "G1" => gw_gen.gcode[k].z = gw_printer.z_draw
                  /\ gw_gen.gcode[k].cmd = "G0" => gw_gen.gcode[k].z = gw_printer.z_travel)
    /\ [][ShortCall => gw_gen' = gw_gen]_vars

\* two calls have returned, the first for a single point, the second for a
\* toolpath that was drawn: its G0 and G1 lines are in the file
C29_Witness ==
    /\ Writing /\ HeightsDiffer
    /\ Len(gw_drawn) = 2
    /\ Len(gw_toolpaths[gw_drawn[1]].points) < 2
    /\ \E k \in 1..Len(gw_gen.gcode) : gw_gen.gcode[k].cmd = "G0"
    /\ \E k \in 1..Len(gw_gen.gcode) : gw_gen.gcode[k].cmd = "G1"
    /\ \E k \in 1..Len(gw_gen.gcode) : gw_gen.gcode[k].cmd = "G1Z"

-----------------------------------------------------------------------------
(* MainWindow: the handlers that touch models, placement, configuration and *)
(* _current_toolpaths (gui.py 1437-1898), one handler per step.  A model is *)
(* its file, whether the file holds drawable shapes, scale, rotation and    *)
(* position; a configuration is the printer's name, the largest scale at    *)
(* which a model fits its bed, and the largest position on the bed.         *)

MaxModels == 2
MaxDropped == 2

\* two printers: a small bed and a large one
GuiConfigs ==
    {[printer |-> "small", max_scale |-> 1, x_max |-> 0],
     [printer |-> "large", max_scale |-> 2, x_max |-> 1]}

\* a drawing, an SVG without drawable shapes, a file that parse_svg rejects
\* and a path that does not exist
DroppedFiles == {"drawing.svg", "blank.svg", "broken.svg", "missing.svg"}

Scales == 1..2
Rotations == {0, 90}
Positions == 0..1

\* lines 1709-1715: the path exists and parse_svg returns
Parses(name) == name \in {"drawing.svg", "blank.svg"}

\* LoadedModel(path=path, original_shapes=shapes)
LoadedModel(name) ==
    [path |-> name, drawable |-> name = "drawing.svg", scale |-> 1, rotation_degrees |-> 0,
     position |-> 0]

\* _constrain_model_within_bed (lines 1506-1530)
_constrain_model_within_bed(model, config) ==
    [model EXCEPT !.position = Min(Max(@, 0), config.x_max)]

\* _configure_model_for_printer (lines 1437-1498): a model without shapes
\* has no scale candidates
_configure_model_for_printer(model, preserve_position, index, config) ==
    LET max_scale == IF model.drawable THEN config.max_scale ELSE 1
    IN IF preserve_position
       THEN _constrain_model_within_bed(
                [model EXCEPT !.scale = IF model.drawable THEN Min(@, max_scale) ELSE @],
                config)
       ELSE _constrain_model_within_bed(
                [model EXCEPT !.scale = max_scale, !.position = index], config)

\* _reconfigure_all_models(preserve_positions=True)
_reconfigure_all_models(models, config) ==
    [k \in 1..Len(models) |-> _configure_model_for_printer(models[k], TRUE, k - 1, config)]

\* what generate_toolpaths_for_shapes returns when it returns: toolpaths of
\* the drawable models as placed, for the configuration
generate_toolpaths_for_shapes(models, config) ==
    LET Drawable(model) == model.drawable
        shapes == SelectSeq(models, Drawable)
    IN [k \in 1..Len(shapes) |-> [shape |-> shapes[k], config |-> config]]

\* the state after MainWindow.__init__ (lines 1319-1360), which ends with
\* _load_config_from_file: the file loads or it does not
InitGui ==
    /\ PerimIdle /\ ColorIdle /\ WriteIdle /\ InfillIdle /\ BuildIdle /\ UtilIdle /\ MergeIdle
    /\ InterleaveIdle /\ GlueIdle
    /\ gu_config \in {None} \cup {Some(config) : config \in GuiConfigs}
    /\ gu_models = <<>> /\ gu_selected = 0 /\ gu_toolpaths = <<>> /\ gu_status = ""

\* _load_config_from_file (lines 1860-1898) when load_config returns; when
\* it raises the handler changes nothing
LoadConfigFromFile ==
    /\ \E config \in GuiConfigs :
          /\ gu_config' = Some(config)
          /\ gu_models' = _reconfigure_all_models(gu_models, config)
    /\ IF gu_models # <<>>
       THEN /\ gu_toolpaths' = <<>>
            /\ gu_status' = "Configuration loaded; slice to regenerate G-code."
       ELSE /\ gu_status' = ""
            /\ UNCHANGED gu_toolpaths
    /\ UNCHANGED <<gu_selected, pl_vars, cp_vars, gw_vars, in_vars, bt_vars, uc_vars, mg_vars, il_vars, gl_vars>>

\* _apply_new_config (lines 1824-1831)
ApplyNewConfig ==
    /\ \E config \in GuiConfigs :
          /\ gu_config' = Some(config)
          /\ gu_models' = _reconfigure_all_models(gu_models, config)
    /\ gu_toolpaths' = <<>>
    /\ gu_status' = "Configuration updated; slice to regenerate G-code."
    /\ UNCHANGED <<gu_selected, pl_vars, cp_vars, gw_vars, in_vars, bt_vars, uc_vars, mg_vars, il_vars, gl_vars>>

\* _handle_files_added (lines 1701-1733) with a configuration
HandleFilesAdded ==
    /\ gu_config # None
    /\ \E filenames \in SeqsUpTo(DroppedFiles, MaxDropped) \ {<<>>} :
          LET parsed == SelectSeq(filenames, Parses)
              added == [k \in 1..Len(parsed) |->
                           _configure_model_for_printer(LoadedModel(parsed[k]), FALSE,
                                                        Len(gu_models) + k - 1, gu_config[1])]
          IN /\ Len(gu_models) + Len(parsed) <= MaxModels
             /\ gu_models' = gu_models \o added
             /\ IF added # <<>>
                THEN /\ gu_selected' = Len(gu_models) + Len(added)
                     /\ gu_toolpaths' = <<>>
                     /\ gu_status' = "Placement updated; slice to generate G-code."
                ELSE /\ gu_status' = "No new SVGs were added."
                     /\ UNCHANGED <<gu_selected, gu_toolpaths>>
    /\ UNCHANGED <<gu_config, pl_vars, cp_vars, gw_vars, in_vars, bt_vars, uc_vars, mg_vars, il_vars, gl_vars>>

\* _remove_selected_models (lines 1735-1757) for a non-empty selection of
\* rows of the file list
RemoveSelectedModels ==
    /\ \E indices \in (SUBSET (1..Len(gu_models))) \ {{}} :
          LET rest == [k \in 1..Cardinality((1..Len(gu_models)) \ indices) |->
                          gu_models[AscendingSeq((1..Len(gu_models)) \ indices)[k]]]
              lowest == CHOOSE i \in indices : \A j \in indices : i <= j
          IN /\ gu_models' = rest
             /\ gu_selected' = IF rest # <<>> THEN Min(lowest, Len(rest)) ELSE 0
             /\ gu_status' = IF rest # <<>> THEN "Placement updated; slice to generate G-code."
                             ELSE "Queue is empty."
    /\ gu_toolpaths' = <<>>
    /\ UNCHANGED <<gu_config, pl_vars, cp_vars, gw_vars, in_vars, bt_vars, uc_vars, mg_vars, il_vars, gl_vars>>

\* _clear_models (lines 1759-1766)
ClearModels ==
    /\ gu_models # <<>>
    /\ gu_models' = <<>> /\ gu_selected' = 0
    /\ gu_toolpaths' = <<>>
    /\ gu_status' = "Queue cleared."
    /\ UNCHANGED <<gu_config, pl_vars, cp_vars, gw_vars, in_vars, bt_vars, uc_vars, mg_vars, il_vars, gl_vars>>

\* the drag without the call of line 1667
ModelMoved_KeepsToolpaths ==
    /\ gu_config # None
    /\ \E k \in 1..Len(gu_models), position \in Positions :
          gu_models' = [gu_models EXCEPT ![k] =
                           _constrain_model_within_bed([@ EXCEPT !.position = position],
                                                       gu_config[1])]
    /\ gu_status' = "Placement updated; slice to generate G-code."
    /\ UNCHANGED <<gu_config, gu_selected, gu_toolpaths, pl_vars, cp_vars, gw_vars, in_vars, bt_vars, uc_vars, mg_vars, il_vars, gl_vars>>

\* a model item is dragged: itemChange (lines 399-426) stores the position,
\* kept on the bed, and _on_arrangement_changed (lines 1664-1667) follows
ModelMoved ==
    /\ gu_config # None
    /\ \E k \in 1..Len(gu_models), position \in Positions :
          gu_models' = [gu_models EXCEPT ![k] =
                           _constrain_model_within_bed([@ EXCEPT !.position = position],
                                                       gu_config[1])]
    /\ gu_toolpaths' = <<>>
    /\ gu_status' = "Placement updated; slice to generate G-code."
    /\ UNCHANGED <<gu_config, gu_selected, pl_vars, cp_vars, gw_vars, in_vars, bt_vars, uc_vars, mg_vars, il_vars, gl_vars>>

\* _on_model_selection_from_list (lines 1562-1566)
ModelSelected ==
    /\ \E index \in 0..Len(gu_models) : gu_selected' = index
    /\ gu_selected' # gu_selected
    /\ UNCHANGED <<gu_config, gu_models, gu_toolpaths, gu_status, pl_vars, cp_vars, gw_vars, in_vars, bt_vars, uc_vars, mg_vars, il_vars, gl_vars>>

\* _apply_scale_from_ui and _apply_scale_to_model (lines 1568-1571,
\* 1617-1656)
ApplyScale ==
    /\ gu_selected # 0 /\ gu_config # None
    /\ \E scale \in Scales :
          LET model == gu_models[gu_selected]
              effective_scale == IF model.drawable THEN Min(scale, gu_config[1].max_scale)
                                 ELSE scale
          IN gu_models' = [gu_models EXCEPT ![gu_selected] =
                              _constrain_model_within_bed([@ EXCEPT !.scale = effective_scale],
                                                          gu_config[1])]
    /\ gu_toolpaths' = <<>>
    /\ gu_status' = "Scale updated; slice to regenerate G-code."
    /\ UNCHANGED <<gu_config, gu_selected, pl_vars, cp_vars, gw_vars, in_vars, bt_vars, uc_vars, mg_vars, il_vars, gl_vars>>

\* _apply_rotation_from_ui and _apply_rotation_to_model (lines 1578-1615)
ApplyRotation ==
    /\ gu_selected # 0 /\ gu_config # None
    /\ \E rotation \in Rotations :
          gu_models' = [gu_models EXCEPT ![gu_selected] =
                           _constrain_model_within_bed([@ EXCEPT !.rotation_degrees = rotation],
                                                       gu_config[1])]
    /\ gu_toolpaths' = <<>>
    /\ gu_status' = "Rotation updated; slice to regenerate G-code."
    /\ UNCHANGED <<gu_config, gu_selected, pl_vars, cp_vars, gw_vars, in_vars, bt_vars, uc_vars, mg_vars, il_vars, gl_vars>>

\* _perform_slice (lines 1768-1822) past its three early returns: the try
\* block ends normally, or generate_toolpaths_for_shapes returns nothing or
\* one of the calls raises
PerformSlice ==
    /\ gu_config # None /\ gu_models # <<>>
    /\ \E k \in 1..Len(gu_models) : gu_models[k].drawable
    /\ \E raised \in BOOLEAN :
          \E toolpaths \in {generate_toolpaths_for_shapes(gu_models, gu_config[1])} :
              IF raised \/ toolpaths = <<>>
              THEN /\ gu_status' = "Slicing failed"
                   /\ UNCHANGED gu_toolpaths
              ELSE /\ gu_toolpaths' = toolpaths
                   /\ gu_status' = "G-code saved"
    /\ UNCHANGED <<gu_config, gu_models, gu_selected, pl_vars, cp_vars, gw_vars, in_vars, bt_vars, uc_vars, mg_vars, il_vars, gl_vars>>

NextGui ==
    \/ LoadConfigFromFile \/ ApplyNewConfig \/ HandleFilesAdded \/ RemoveSelectedModels
    \/ ClearModels \/ ModelMoved \/ ModelSelected \/ ApplyScale \/ ApplyRotation
    \/ PerformSlice

SpecGui == InitGui /\ [][NextGui]_vars

\* models, placement or configuration differ after the step
Changed == gu_models' # gu_models \/ gu_config' # gu_config

\* the step is a slice that failed
FailedSlice == gu_status' = "Slicing failed"

\* C30: stored toolpaths are those of the models, their placement and the
\* configuration as they are now; every step that changes one of these
\* leaves _current_toolpaths empty; toolpaths are stored only by a slice
\* that succeeded, and a slice that failed leaves _current_toolpaths as it
\* was.
C30_Staleness ==
    /\ [](gu_toolpaths # <<>> =>
            /\ gu_config # None
            /\ gu_toolpaths = generate_toolpaths_for_shapes(gu_models, gu_config[1]))
    /\ [][Changed => gu_toolpaths' = <<>>]_vars
    /\ [][gu_toolpaths' # <<>> /\ gu_toolpaths' # gu_toolpaths =>
              ~Changed /\ gu_status' = "G-code saved"]_vars
    /\ [][FailedSlice => gu_toolpaths' = gu_toolpaths]_vars

\* two models on the large bed, the second one no longer at the position it
\* was given when added, and a slice that succeeded since: the toolpaths
\* are stored
C30_Witness ==
    /\ Len(gu_models) = 2 /\ gu_toolpaths # <<>>
    /\ gu_models[2].drawable /\ gu_models[2].position = 0
    /\ gu_models[1].scale = 1 /\ gu_config[1].max_scale = 2

=============================================================================
